---- MODULE Spec2Model ----
(***************************************************************************)
(* A model of the unicode-study library: the UTF-8 codec (validate, fix,   *)
(* the decode iterator, encode) and the codepoint trie.                    *)
(*                                                                         *)
(* Byte sequences are TLA+ sequences of naturals below 256.  The source    *)
(* indexes from 0; the helper At turns a 0-based index into a read and     *)
(* makes a read past the end visible as OutOfBounds, which the callers     *)
(* turn into a panic outcome.                                              *)
(***************************************************************************)
EXTENDS Naturals, Integers, Sequences, FiniteSets, TLC

VARIABLES
    input,      \* fix / CodePointIter: the byte vector handed in
    pos,        \* fix: the cursor `pos`
    fixed,      \* fix: the output vector `fixed`
    pc,         \* fix: "idle" | "start" | "loop" | "done" | "abort"
    iter_pos,   \* CodePointIter.pos
    cps,        \* the codepoints the iterator has yielded so far
    enc_idx,    \* how many of cps have been encoded again
    encoded,    \* the bytes encode has produced so far
    cpc,        \* round trip: "idle" | "decoding" | "encoding" | "done" | "abort"
    endian,     \* the target's byte order, read by u32::to_ne_bytes
    pairs,      \* from_kvs: the (key, value) pairs handed in
    pair_idx,   \* from_kvs: how many pairs have been inserted
    root,       \* from_kvs: the trie under construction
    query,      \* get: the key looked up last
    result,     \* get: the TrieMatch returned last
    tpc,        \* trie: "idle" | "building" | "built" | "queried"
    nfc_cps,    \* to_nfc: the codepoints handed in (`cps`)
    decomposed, \* to_nfc: the decomposed codepoints
    nfc_pos,    \* to_nfc: the cursor `pos` into decomposed
    seq_start_pos, \* to_nfc: where the run last taken starts in decomposed
    seq,        \* to_nfc: the run last taken, after sort_by and before composition
    normalised_code_points, \* to_nfc: the output vector
    npc,        \* to_nfc: "idle" | "start" | "loop" | "done"
    qc_bytes,   \* quick_check: the bytes handed in
    qc_iter_pos, \* quick_check: the cursor of its CodePointIter
    last_canonical_class, \* quick_check: the class of the codepoint before
    qc_result,  \* quick_check: the local `result`
    qc_returned, \* quick_check: the value returned, "None" before the return
    qpc,        \* quick_check: "idle" | "loop" | "done" | "abort"
    lc_code_points, \* to_lowercase: the codepoints handed in (`code_points`)
    lc_pos,     \* to_lowercase: the cursor `pos`
    lc_out,     \* to_lowercase: the output vector `out`
    lpc,        \* to_lowercase: "idle" | "loop" | "done"
    cm_x,       \* canonical_caseless_match: the argument x
    cm_y,       \* canonical_caseless_match: the argument y
    cm_result,  \* canonical_caseless_match: the Ordering returned, "None" before
    g_code_points, \* GraphemeIter.code_points
    g_pos,      \* GraphemeIter.pos
    yielded,    \* the slices next() has returned, each as <<start, end>> of code_points[start..end]
    gpc,        \* GraphemeIter's consumer: "idle" | "iterating" | "done"
    sk_code_points, \* sort_key: the codepoints handed in (`code_points`)
    variable_weighting, \* sort_key: the VariableWeighting handed in
    nfd,        \* sort_key: the buffer `nfd`, which to_collation_elements changes
    ce_pos,     \* to_collation_elements: the cursor `pos`
    ce_s,       \* to_collation_elements: `s` of the last round of the loop
    acc_collation_elements, \* to_collation_elements: the elements so far
    ces,        \* to_sort_key: the collation elements handed in
    level,      \* to_sort_key: the `level` of the outer for loop
    sort_key,   \* to_sort_key: the vector `sort_key`
    kpc         \* sort_key: "idle" | "sort_key" | "elements" | "to_sort_key" |
                \* "levels" | "done" | "abort" (an index out of bounds) |
                \* "todo" (a todo!())

fixVars == <<input, pos, fixed, pc>>
codecVars == <<iter_pos, cps, enc_idx, encoded, cpc>>
trieVars == <<endian, pairs, pair_idx, root, query, result, tpc>>
nfcVars == <<nfc_cps, decomposed, nfc_pos, seq_start_pos, seq, normalised_code_points, npc>>
qcVars == <<qc_bytes, qc_iter_pos, last_canonical_class, qc_result, qc_returned, qpc>>
lcVars == <<lc_code_points, lc_pos, lc_out, lpc>>
cmVars == <<cm_x, cm_y, cm_result>>
segVars == <<g_code_points, g_pos, yielded, gpc>>
collVars == <<sk_code_points, variable_weighting, nfd, ce_pos, ce_s, acc_collation_elements,
              ces, level, sort_key, kpc>>
textVars == <<nfcVars, qcVars, lcVars, cmVars, segVars, collVars>>
vars == <<input, pos, fixed, pc, iter_pos, cps, enc_idx, encoded, cpc,
          endian, pairs, pair_idx, root, query, result, tpc, textVars>>

(***************************************************************************)
(* Bounds of the model.                                                    *)
(***************************************************************************)
MaxLen == 4
MaxPairs == 2
MaxKeyLen == 2
MaxCps == 3
MaxCaseLen == 4
MaxFoldLen == 2
MaxCes == 2
MaxLevels == 2
MaxRiLen == 5

\* One byte of every class the codec tells apart, chosen so that every kind
\* of sequence can be built: ASCII, continuation bytes, a 2-byte prefix that
\* can only start an overlong form (0xC0) and one that cannot (0xC2), 3-byte
\* prefixes (0xE0: overlong with 0x80, valid with 0xBF; 0xED: valid with 0x80,
\* a surrogate with 0xBF), 4-byte prefixes (0xF0: overlong with 0x80, valid
\* with 0xBF; 0xF4: valid with 0x80, above 0x10FFFF with 0xBF) and a byte that
\* is no code unit at all.
Bytes == {65, 128, 191, 192, 194, 224, 237, 240, 244, 255}

RECURSIVE SeqsUpTo(_, _)
SeqsUpTo(S, n) ==
    IF n = 0 THEN {<<>>}
    ELSE LET shorter == SeqsUpTo(S, n - 1)
         IN  shorter \cup {Append(s, x) : s \in {t \in shorter : Len(t) = n - 1}, x \in S}

ByteSeqs == SeqsUpTo(Bytes, MaxLen)

(***************************************************************************)
(* Rust's sequence primitives.                                             *)
(***************************************************************************)
OutOfBounds == -1

\* input[i], 0-based
At(s, i) == IF i >= 0 /\ i < Len(s) THEN s[i + 1] ELSE OutOfBounds

\* &input[from..to], 0-based and half-open; the callers check the range
Slice(s, from, to) == SubSeq(s, from + 1, to)

\* u8 operators: &, |, <<, >>
RECURSIVE BitAnd(_, _)
BitAnd(a, b) ==
    IF a = 0 \/ b = 0 THEN 0
    ELSE (a % 2) * (b % 2) + 2 * BitAnd(a \div 2, b \div 2)

RECURSIVE BitOr(_, _)
BitOr(a, b) ==
    IF a = 0 THEN b
    ELSE IF b = 0 THEN a
    ELSE (IF a % 2 = 1 \/ b % 2 = 1 THEN 1 ELSE 0) + 2 * BitOr(a \div 2, b \div 2)

Shl8(x, n) == (x * 2 ^ n) % 256
Shr8(x, n) == x \div 2 ^ n

(***************************************************************************)
(* helpers.rs                                                              *)
(***************************************************************************)
\* CodeUnit::try_from(u8); the Err(InvalidCodeUnit) outcome is the string
\* "InvalidCodeUnit"
CodeUnit_try_from(value) ==
    IF value <= 127 THEN "SingleByte"
    ELSE IF value <= 191 THEN "Continuation"
    ELSE IF value <= 223 THEN "DoublePrefix"
    ELSE IF value <= 239 THEN "TriplePrefix"
    ELSE IF value <= 247 THEN "QuadPrefix"
    ELSE "InvalidCodeUnit"

\* CodeUnit::len; 0 stands for unreachable!()
CodeUnit_len(code_unit) ==
    CASE code_unit = "SingleByte" -> 1
      [] code_unit = "DoublePrefix" -> 2
      [] code_unit = "TriplePrefix" -> 3
      [] code_unit = "QuadPrefix" -> 4
      [] OTHER -> 0

is_valid_codepoint(code_point) ==
    LET below_max_code_point == code_point <= 1114111
        not_half_of_utf16_surrogate_pair == code_point < 55296 \/ code_point > 57343
    IN  below_max_code_point /\ not_half_of_utf16_surrogate_pair

CLEAR_12 == 63
CLEAR_1234 == 15
CLEAR_12345 == 7
CLEAR_123456 == 3
CLEAR_12378 == 28
CLEAR_345678 == 192
CLEAR_5678 == 240

\* u32::from_be_bytes([b0, b1, b2, b3])
from_be_bytes(b0, b1, b2, b3) == ((b0 * 256 + b1) * 256 + b2) * 256 + b3

decode_double(first, second) ==
    LET high_byte == BitAnd(Shr8(first, 2), CLEAR_12345)
        low_byte == BitOr(BitAnd(Shl8(first, 6), CLEAR_345678), BitAnd(second, CLEAR_12))
    IN  from_be_bytes(0, 0, high_byte, low_byte)

decode_triple(first, second, third) ==
    LET high_byte == BitOr(BitAnd(Shl8(first, 4), CLEAR_5678), BitAnd(Shr8(second, 2), CLEAR_1234))
        low_byte == BitOr(BitAnd(Shl8(second, 6), CLEAR_345678), BitAnd(third, CLEAR_12))
    IN  from_be_bytes(0, 0, high_byte, low_byte)

decode_quad(first, second, third, fourth) ==
    LET high_byte == BitOr(BitAnd(Shl8(first, 2), CLEAR_12378), BitAnd(Shr8(second, 4), CLEAR_123456))
        middle_byte == BitOr(BitAnd(Shl8(second, 4), CLEAR_5678), BitAnd(Shr8(third, 2), CLEAR_1234))
        low_byte == BitOr(BitAnd(Shl8(third, 6), CLEAR_345678), BitAnd(fourth, CLEAR_12))
    IN  from_be_bytes(0, high_byte, middle_byte, low_byte)

\* u32::to_be_bytes: bytes[0] is the most significant byte of the four
to_be_bytes(code_point) ==
    <<(code_point \div 16777216) % 256, (code_point \div 65536) % 256,
      (code_point \div 256) % 256, code_point % 256>>

\* encode: ok = FALSE stands for the todo!() and unimplemented!() arms.
\* bytes[0] and bytes[1] of the source are bytes[1] and bytes[2] here
\* (1-based); in `bytes[1] | 0b1000_0000 & 0b1011_1111` the & binds first.
encode(code_point) ==
    LET bytes == to_be_bytes(code_point)
    IN  IF code_point <= 127 THEN [ok |-> TRUE, bytes |-> <<code_point % 256>>]
        ELSE IF code_point <= 2047 THEN
            LET first_byte == BitOr(BitOr(192, Shl8(bytes[1], 2)), Shr8(bytes[2], 6))
                second_byte == BitOr(bytes[2], BitAnd(128, 191))
            IN  [ok |-> TRUE, bytes |-> <<first_byte, second_byte>>]
        ELSE IF code_point <= 65535 THEN
            LET first_byte == BitOr(224, Shr8(bytes[1], 4))
                second_byte == BitOr(BitOr(128, BitAnd(Shl8(bytes[1], 2), 60)), Shr8(bytes[2], 6))
                third_byte == BitOr(128, BitAnd(bytes[2], 63))
            IN  [ok |-> TRUE, bytes |-> <<first_byte, second_byte, third_byte>>]
        ELSE [ok |-> FALSE, bytes |-> <<>>]

(***************************************************************************)
(* validate.rs                                                             *)
(***************************************************************************)
bytes_remaining(code_unit) ==
    CASE code_unit = "SingleByte" -> 0
      [] code_unit = "DoublePrefix" -> 1
      [] code_unit = "TriplePrefix" -> 2
      [] code_unit = "QuadPrefix" -> 3

\* Result<(), DecodeErr> as fix destructures it: the error, the cursor where
\* it was raised and (for OverlongEncoding, which fix matches with a payload)
\* a codepoint.
Ok == [ok |-> TRUE, err |-> "None", pos |-> 0, code_point |-> 0]
Err(decode_err, at) == [ok |-> FALSE, err |-> decode_err, pos |-> at, code_point |-> 0]

\* The loop `for i in 1..=remaining` of validate: "Ok" when every expected
\* byte is a continuation byte, else the error of the first one that is not.
RECURSIVE continuations(_, _, _, _)
continuations(inp, p, i, remaining) ==
    IF i > remaining THEN "Ok"
    ELSE IF At(inp, p + i) = OutOfBounds THEN "Panic"
    ELSE LET unit == CodeUnit_try_from(At(inp, p + i))
         IN  IF unit = "InvalidCodeUnit" THEN "InvalidCodeUnit"
             ELSE IF unit = "Continuation" THEN continuations(inp, p, i + 1, remaining)
             ELSE "IncompleteCharacter"

\* validate_from with the length check off by one (> for >=)
RECURSIVE validate_from_OffByOne(_, _)
validate_from_OffByOne(inp, p) ==
    IF ~(p < Len(inp)) THEN Ok
    ELSE LET code_unit == CodeUnit_try_from(At(inp, p))
         IN  IF code_unit = "InvalidCodeUnit" THEN Err("InvalidCodeUnit", p)
             ELSE IF code_unit = "SingleByte" THEN validate_from_OffByOne(inp, p + 1)
             ELSE IF code_unit = "Continuation" THEN Err("UnexpectedContinuation", p)
             ELSE LET remaining == bytes_remaining(code_unit)
                  IN  IF p + remaining > Len(inp) THEN Err("IncompleteCharacter", p)
                      ELSE LET conts == continuations(inp, p, 1, remaining)
                               code_point ==
                                   CASE code_unit = "DoublePrefix" ->
                                            decode_double(At(inp, p), At(inp, p + 1))
                                     [] code_unit = "TriplePrefix" ->
                                            decode_triple(At(inp, p), At(inp, p + 1), At(inp, p + 2))
                                     [] code_unit = "QuadPrefix" ->
                                            decode_quad(At(inp, p), At(inp, p + 1), At(inp, p + 2),
                                                        At(inp, p + 3))
                           IN  IF conts # "Ok" THEN Err(conts, p)
                               ELSE IF ~is_valid_codepoint(code_point)
                                    THEN Err("InvalidCodePoint", p)
                               ELSE validate_from_OffByOne(inp, p + 1 + remaining)

\* validate's while loop from cursor p.  The error is returned together with
\* the cursor at the moment of the return: fix reads it as err_pos and
\* requires input[err_pos] to be the character's first byte.
RECURSIVE validate_from(_, _)
validate_from(inp, p) ==
    IF ~(p < Len(inp)) THEN Ok
    ELSE LET code_unit == CodeUnit_try_from(At(inp, p))
         IN  IF code_unit = "InvalidCodeUnit" THEN Err("InvalidCodeUnit", p)
             ELSE IF code_unit = "SingleByte" THEN validate_from(inp, p + 1)
             ELSE IF code_unit = "Continuation" THEN Err("UnexpectedContinuation", p)
             ELSE LET remaining == bytes_remaining(code_unit)
                  IN  IF p + remaining >= Len(inp) THEN Err("IncompleteCharacter", p)
                      ELSE LET conts == continuations(inp, p, 1, remaining)
                               code_point ==
                                   CASE code_unit = "DoublePrefix" ->
                                            decode_double(At(inp, p), At(inp, p + 1))
                                     [] code_unit = "TriplePrefix" ->
                                            decode_triple(At(inp, p), At(inp, p + 1), At(inp, p + 2))
                                     [] code_unit = "QuadPrefix" ->
                                            decode_quad(At(inp, p), At(inp, p + 1), At(inp, p + 2),
                                                        At(inp, p + 3))
                           IN  IF conts # "Ok" THEN Err(conts, p)
                               ELSE IF ~is_valid_codepoint(code_point)
                                    THEN Err("InvalidCodePoint", p)
                               ELSE validate_from(inp, p + 1 + remaining)

validate(inp) == validate_from(inp, 0)

(***************************************************************************)
(* fix.rs                                                                  *)
(***************************************************************************)
REPLACEMENT == <<239, 191, 189>>

\* expected_continuations.iter().position(|c_u| try_from(*c_u) != Ok(Continuation)):
\* the 0-based index of the first byte that is no continuation byte, or
\* Len(s) when there is none (the None that fix unwraps).
RECURSIVE position_not_continuation(_, _)
position_not_continuation(s, i) ==
    IF i >= Len(s) THEN Len(s)
    ELSE IF CodeUnit_try_from(At(s, i)) # "Continuation" THEN i
    ELSE position_not_continuation(s, i + 1)

\* One iteration of `while let Err((decode_err, err_pos)) = validate(..)`,
\* given the error r that validate returned for input[p..len].  The result is
\* the new cursor and output, and whether the iteration panicked.
fix_iteration(inp, p, fx, r) ==
    LET err_pos == r.pos + p
        copied == fx \o Slice(inp, p, err_pos)
        code_unit == CodeUnit_try_from(At(inp, err_pos))
        unwrap_fails == code_unit = "InvalidCodeUnit" \/ code_unit = "Continuation"
        Step(np, nfx) == [pos |-> np, fixed |-> nfx, panic |-> FALSE]
        Panic(nfx) == [pos |-> err_pos, fixed |-> nfx, panic |-> TRUE]
    IN  CASE r.err = "InvalidCodeUnit" -> Step(err_pos + 1, copied \o REPLACEMENT)
          [] r.err = "IncompleteCharacter" ->
                IF unwrap_fails \/ err_pos + CodeUnit_len(code_unit) > Len(inp)
                THEN Panic(copied \o REPLACEMENT)
                ELSE LET expected_continuations ==
                             Slice(inp, err_pos + 1, err_pos + CodeUnit_len(code_unit))
                         end == position_not_continuation(expected_continuations, 0)
                     IN  IF end = Len(expected_continuations)
                         THEN Panic(copied \o REPLACEMENT)
                         ELSE Step(err_pos + 1 + end, copied \o REPLACEMENT)
          [] r.err = "InvalidCodePoint" ->
                IF unwrap_fails THEN Panic(copied \o REPLACEMENT)
                ELSE Step(err_pos + CodeUnit_len(code_unit), copied \o REPLACEMENT)
          [] r.err = "OverlongEncoding" ->
                IF ~encode(r.code_point).ok \/ unwrap_fails THEN Panic(copied)
                ELSE Step(err_pos + CodeUnit_len(code_unit),
                          copied \o encode(r.code_point).bytes)
          [] r.err = "UnexpectedContinuation" -> Step(err_pos + 1, copied)
          [] OTHER -> Panic(copied)

\* FixStart with the Ok arm returning the local `fixed` instead of `input`
FixStart_ReturnsFixed ==
    /\ pc = "start"
    /\ fixed' = <<>>
    /\ pos' = 0
    /\ pc' = IF validate(input).ok THEN "done"
             ELSE IF validate(input).err = "Panic" THEN "abort" ELSE "loop"
    /\ UNCHANGED <<input, codecVars, trieVars, textVars>>

\* fix, lines 8-13: the first validate of the whole input
FixStart ==
    /\ pc = "start"
    /\ IF validate(input).ok
       THEN /\ fixed' = input
            /\ pc' = "done"
            /\ pos' = pos
       ELSE /\ fixed' = <<>>
            /\ pos' = 0
            /\ pc' = IF validate(input).err = "Panic" THEN "abort" ELSE "loop"
    /\ UNCHANGED <<input, codecVars, trieVars, textVars>>

\* fix, lines 15-44: one iteration of the repair loop
FixLoop ==
    /\ pc = "loop"
    /\ LET r == validate(Slice(input, pos, Len(input)))
       IN  /\ ~r.ok
           /\ LET next == fix_iteration(input, pos, fixed, r)
              IN  /\ pos' = next.pos
                  /\ fixed' = next.fixed
                  /\ pc' = IF next.panic THEN "abort" ELSE "loop"
    /\ UNCHANGED <<input, codecVars, trieVars, textVars>>

\* fix, lines 15 and 45-46: validate accepts the rest, which is copied
FixReturn ==
    /\ pc = "loop"
    /\ validate(Slice(input, pos, Len(input))).ok
    /\ fixed' = fixed \o Slice(input, pos, Len(input))
    /\ pc' = "done"
    /\ UNCHANGED <<input, pos, codecVars, trieVars, textVars>>

(***************************************************************************)
(* cp_iter.rs, and the decode-then-encode composition                      *)
(***************************************************************************)
\* CodePointIter::next at cursor p: None, Some(code_point) with the new
\* cursor, or a panic (unwrap of an invalid code unit, unreachable!() on a
\* continuation byte, an index past the end).
CodePointIter_next(bytes, p) ==
    LET unit == CodeUnit_try_from(At(bytes, p))
        Some(cp, np) == [kind |-> "Some", code_point |-> cp, pos |-> np]
        Panicked == [kind |-> "Panic", code_point |-> 0, pos |-> p]
    IN  IF p >= Len(bytes) THEN [kind |-> "None", code_point |-> 0, pos |-> p]
        ELSE CASE unit = "SingleByte" -> Some(At(bytes, p), p + 1)
               [] unit = "DoublePrefix" ->
                    IF p + 1 >= Len(bytes) THEN Panicked
                    ELSE Some(decode_double(At(bytes, p), At(bytes, p + 1)), p + 2)
               [] unit = "TriplePrefix" ->
                    IF p + 2 >= Len(bytes) THEN Panicked
                    ELSE Some(decode_triple(At(bytes, p), At(bytes, p + 1), At(bytes, p + 2)),
                              p + 3)
               [] unit = "QuadPrefix" ->
                    IF p + 3 >= Len(bytes) THEN Panicked
                    ELSE Some(decode_quad(At(bytes, p), At(bytes, p + 1), At(bytes, p + 2),
                                          At(bytes, p + 3)), p + 4)
               [] OTHER -> Panicked

\* One call of next() by the collecting loop
IterNext ==
    /\ cpc = "decoding"
    /\ LET n == CodePointIter_next(input, iter_pos)
       IN  /\ iter_pos' = n.pos
           /\ cps' = IF n.kind = "Some" THEN Append(cps, n.code_point) ELSE cps
           /\ cpc' = CASE n.kind = "Some" -> "decoding"
                       [] n.kind = "None" -> "encoding"
                       [] OTHER -> "abort"
    /\ UNCHANGED <<input, pos, fixed, pc, enc_idx, encoded, trieVars, textVars>>

\* The encoding half of the round trip: encode is applied to the decoded
\* codepoints in order and its bytes are concatenated.
EncodeNext ==
    /\ cpc = "encoding"
    /\ IF enc_idx = Len(cps)
       THEN /\ cpc' = "done"
            /\ UNCHANGED <<enc_idx, encoded>>
       ELSE LET e == encode(cps[enc_idx + 1])
            IN  /\ encoded' = encoded \o e.bytes
                /\ enc_idx' = IF e.ok THEN enc_idx + 1 ELSE enc_idx
                /\ cpc' = IF e.ok THEN "encoding" ELSE "abort"
    /\ UNCHANGED <<input, pos, fixed, pc, iter_pos, cps, trieVars, textVars>>

(***************************************************************************)
(* trie.rs                                                                 *)
(***************************************************************************)
\* Option<T> is a sequence: <<>> for None, <<v>> for Some(v).
empty == [keys |-> <<>>, nodes |-> <<>>, val |-> <<>>]

\* u32::to_ne_bytes: the target's byte order
to_ne_bytes(n, order) ==
    LET be == to_be_bytes(n)
    IN  IF order = "big" THEN be ELSE <<be[4], be[3], be[2], be[1]>>

RECURSIVE key_chain(_, _)
key_chain(k, order) ==
    IF k = <<>> THEN <<>>
    ELSE to_ne_bytes(Head(k), order) \o key_chain(Tail(k), order)

\* node.keys.iter().position(|x| x == part): 1-based here, 0 for None
RECURSIVE position_from(_, _, _)
position_from(keys, part, i) ==
    IF i > Len(keys) THEN 0
    ELSE IF keys[i] = part THEN i
    ELSE position_from(keys, part, i + 1)

position(keys, part) == position_from(keys, part, 1)

\* The body of from_kvs's loop over pairs: walk down from node along key,
\* adding the missing nodes, and set val at the end.
RECURSIVE insert(_, _, _)
insert(node, key, v) ==
    IF key = <<>> THEN [node EXCEPT !.val = <<v>>]
    ELSE LET idx == position(node.keys, Head(key))
         IN  IF idx # 0
             THEN [node EXCEPT !.nodes[idx] = insert(node.nodes[idx], Tail(key), v)]
             ELSE [node EXCEPT !.keys = Append(@, Head(key)),
                               !.nodes = Append(@, insert(empty, Tail(key), v))]

Match(v) == [kind |-> "Match", val |-> <<v>>]
PartialMatch == [kind |-> "PartialMatch", val |-> <<>>]
NoMatch == [kind |-> "NoMatch", val |-> <<>>]

\* get_chain answering Match only at a leaf: a node that has children
\* answers PartialMatch even when it holds a value
RECURSIVE get_chain_PrefersPartial(_, _)
get_chain_PrefersPartial(node, key) ==
    IF key = <<>>
    THEN IF node.val = <<>> \/ node.keys # <<>> THEN PartialMatch ELSE Match(node.val[1])
    ELSE LET idx == position(node.keys, Head(key))
         IN  IF idx # 0 THEN get_chain_PrefersPartial(node.nodes[idx], Tail(key)) ELSE NoMatch

\* Trie::get on the byte key
RECURSIVE get_chain(_, _)
get_chain(node, key) ==
    IF key = <<>>
    THEN IF node.val = <<>> THEN PartialMatch ELSE Match(node.val[1])
    ELSE LET idx == position(node.keys, Head(key))
         IN  IF idx # 0 THEN get_chain(node.nodes[idx], Tail(key)) ELSE NoMatch

get(trie, k, order) == get_chain(trie, key_chain(k, order))

TrieCodepoints == {0, 1}
TrieValues == {1, 2}
TrieKeys == SeqsUpTo(TrieCodepoints, MaxKeyLen)
TriePairs == {<<k, v>> : k \in TrieKeys, v \in TrieValues}

\* from_kvs, lines 22-35: one pair of the loop
FromKvsInsert ==
    /\ tpc = "building"
    /\ pair_idx < Len(pairs)
    /\ LET k == pairs[pair_idx + 1][1]
           v == pairs[pair_idx + 1][2]
       IN  root' = insert(root, key_chain(k, endian), v)
    /\ pair_idx' = pair_idx + 1
    /\ UNCHANGED <<endian, pairs, query, result, tpc, fixVars, codecVars, textVars>>

\* from_kvs, line 37: the loop is over and root is returned
FromKvsReturn ==
    /\ tpc = "building"
    /\ pair_idx = Len(pairs)
    /\ tpc' = "built"
    /\ UNCHANGED <<endian, pairs, pair_idx, root, query, result, fixVars, codecVars, textVars>>

\* A caller looks a key up in the finished trie (get takes &self and leaves
\* the trie as it is, so one lookup per behaviour covers every lookup)
Get ==
    /\ tpc = "built"
    /\ \E k \in TrieKeys :
          /\ query' = k
          /\ result' = get(root, k, endian)
    /\ tpc' = "queried"
    /\ UNCHANGED <<endian, pairs, pair_idx, root, fixVars, codecVars, textVars>>

(***************************************************************************)
(* ucd.rs: the property tables.  The library reads them from the Unicode   *)
(* Character Database; the model keeps the rows of the codepoints it       *)
(* works with, with the values the database gives them:                    *)
(*   65 U+0041 A, 194 U+00C2 A-circumflex, 7840 U+1EA0 A-dot-below,        *)
(*   7852 U+1EAC A-circumflex-dot-below, 770 U+0302 circumflex,            *)
(*   787 U+0313 comma above, 803 U+0323 dot below, 835 U+0343 koronis,     *)
(*   773 U+0305 overline, 790 U+0316 grave below, 837 U+0345 ypogegrammeni,*)
(*   32 U+0020 space, 46 U+002E full stop, 304 U+0130 I with dot above,     *)
(*   913 U+0391 Alpha, 914 U+0392 Beta, 931 U+03A3 Sigma, 945 U+03B1 alpha,*)
(*   946 U+03B2 beta, 953 U+03B9 iota, 962 U+03C2 final sigma,             *)
(*   963 U+03C3 sigma, 7936 U+1F00 alpha with psili,                       *)
(*   8064 U+1F80 alpha with psili and ypogegrammeni,                       *)
(*   8115 U+1FB3 alpha with ypogegrammeni,                                 *)
(*   76 U+004C L, 183 U+00B7 middle dot, 774 U+0306 breve,                 *)
(*   1048 U+0418 Cyrillic I, 19968 U+4E00 a CJK unified ideograph,         *)
(*   10 U+000A line feed, 13 U+000D carriage return, 1 U+0001 a control,   *)
(*   1536 U+0600 Arabic number sign, 2307 U+0903 Devanagari visarga,       *)
(*   8205 U+200D zero width joiner, 127462 U+1F1E6 regional indicator A,   *)
(*   4352 U+1100 choseong kiyeok, 4449 U+1161 jungseong a,                 *)
(*   4520 U+11A8 jongseong kiyeok, 44032 U+AC00 ga, 44033 U+AC01 gag.      *)
(* Option<T> is a sequence: <<>> for None and <<x>> for Some(x).           *)
(***************************************************************************)
\* DECOMPOSITION_MAPPINGS and decomposition_mapping, lines 50-54 and 107-111
decomposition_mapping(code_point) ==
    CASE code_point = 194 -> << <<65, 770>> >>
      [] code_point = 7840 -> << <<65, 803>> >>
      [] code_point = 7852 -> << <<7840, 770>> >>
      [] code_point = 835 -> << <<787>> >>
      [] code_point = 7936 -> << <<945, 787>> >>
      [] code_point = 8064 -> << <<7936, 837>> >>
      [] code_point = 8115 -> << <<945, 837>> >>
      [] code_point = 44032 -> << <<4352, 4449>> >>
      [] code_point = 44033 -> << <<44032, 4520>> >>
      [] OTHER -> <<>>

\* COMBINING_CLASSES and combining_class, lines 55-60 and 113-118
combining_class(code_point) ==
    CASE code_point \in {770, 773, 774, 787, 835} -> 230
      [] code_point \in {790, 803} -> 220
      [] code_point = 837 -> 240
      [] OTHER -> 0

\* is_starter, lines 120-122
is_starter(code_point) == combining_class(code_point) = 0

\* PRIMARY_COMPOSITES and primary_composite, lines 41-46 and 153-155
primary_composite(l, c) ==
    CASE <<l, c>> = <<65, 770>> -> <<194>>
      [] <<l, c>> = <<65, 803>> -> <<7840>>
      [] <<l, c>> = <<7840, 770>> -> <<7852>>
      [] <<l, c>> = <<945, 787>> -> <<7936>>
      [] <<l, c>> = <<7936, 837>> -> <<8064>>
      [] <<l, c>> = <<945, 837>> -> <<8115>>
      [] <<l, c>> = <<4352, 4449>> -> <<44032>>
      [] <<l, c>> = <<44032, 4520>> -> <<44033>>
      [] OTHER -> <<>>

(***************************************************************************)
(* normalise.rs: to_nfc                                                    *)
\* decompose_cp without the recursion: the mapping is applied once
decompose_cp_OneLevel(cp) ==
    LET dm == decomposition_mapping(cp)
    IN  IF dm = <<>> THEN <<cp>> ELSE dm[1]

(***************************************************************************)
\* decompose_cp, lines 38-43 (decompose_flat_map is its flat_map over dm)
RECURSIVE decompose_cp(_), decompose_flat_map(_)
decompose_cp(cp) ==
    LET dm == decomposition_mapping(cp)
    IN  IF dm = <<>> THEN <<cp>> ELSE decompose_flat_map(dm[1])

decompose_flat_map(dm) ==
    IF dm = <<>> THEN <<>> ELSE decompose_cp(Head(dm)) \o decompose_flat_map(Tail(dm))

\* to_nfc, lines 53-57: the fold that decomposes every codepoint of cps
decompose_fold(code_points) == decompose_flat_map(code_points)

\* to_nfc, lines 63-67: the run that starts at seq_start_pos ends before the
\* next starter (the value of pos when the inner while stops)
RECURSIVE seq_end_pos(_, _)
seq_end_pos(dec, p) ==
    IF p < Len(dec) /\ ~is_starter(At(dec, p)) THEN seq_end_pos(dec, p + 1) ELSE p

\* Vec::sort_by puts x behind every element that does not compare greater
\* (a variant that puts it before its equals, kept for comparison)
RECURSIVE sort_insert_BeforeEquals(_, _)
sort_insert_BeforeEquals(sorted, x) ==
    IF sorted = <<>> THEN <<x>>
    ELSE IF combining_class(Head(sorted)) >= combining_class(x)
         THEN <<x>> \o sorted
         ELSE <<Head(sorted)>> \o sort_insert_BeforeEquals(Tail(sorted), x)

\* to_nfc, line 69: seq.sort_by(combining_class), a stable sort: x goes
\* before the first element whose class is greater
RECURSIVE sort_insert(_, _)
sort_insert(sorted, x) ==
    IF sorted = <<>> THEN <<x>>
    ELSE IF combining_class(Head(sorted)) > combining_class(x)
         THEN <<x>> \o sorted
         ELSE <<Head(sorted)>> \o sort_insert(Tail(sorted), x)

RECURSIVE sort_by_from(_, _)
sort_by_from(sorted, rest) ==
    IF rest = <<>> THEN sorted
    ELSE sort_by_from(sort_insert(sorted, Head(rest)), Tail(rest))

sort_by(s) == sort_by_from(<<>>, s)

\* Vec::remove(i), 0-based
remove(s, i) == SubSeq(s, 1, i) \o SubSeq(s, i + 2, Len(s))

\* to_nfc, lines 71-72: the first i of `for i in 0..seq.len()` for which
\* primary_composite(seq[0], seq[i]) is Some; Len(s) when there is none
RECURSIVE first_composable(_, _)
first_composable(s, i) ==
    IF i >= Len(s) THEN Len(s)
    ELSE IF primary_composite(At(s, 0), At(s, i)) # <<>> THEN i
    ELSE first_composable(s, i + 1)

\* to_nfc, lines 70-79: the loop 'outer.  Each round replaces seq[0] by the
\* composite and removes seq[i]; it ends when no i composes.
RECURSIVE compose(_)
compose(s) ==
    LET i == first_composable(s, 0)
    IN  IF i >= Len(s) THEN s
        ELSE compose(remove([s EXCEPT ![1] = primary_composite(At(s, 0), At(s, i))[1]], i))

\* to_nfc, lines 61-81: the while loop from pos on, appending to out
RECURSIVE to_nfc_from(_, _, _)
to_nfc_from(dec, p, out) ==
    IF p < Len(dec)
    THEN LET e == seq_end_pos(dec, p + 1)
         IN  to_nfc_from(dec, e, out \o compose(sort_by(Slice(dec, p, e))))
    ELSE out

\* to_nfc, lines 52-84
to_nfc(code_points) == to_nfc_from(decompose_fold(code_points), 0, <<>>)

\* to_nfc, lines 53-60: decompose cps, start the loop
NfcStart ==
    /\ npc = "start"
    /\ decomposed' = decompose_fold(nfc_cps)
    /\ nfc_pos' = 0
    /\ normalised_code_points' = <<>>
    /\ npc' = "loop"
    /\ UNCHANGED <<nfc_cps, seq_start_pos, seq>>
    /\ UNCHANGED <<fixVars, codecVars, trieVars, qcVars, lcVars, cmVars, segVars, collVars>>

\* to_nfc, lines 61-81: one round of the while loop: take the run, sort it,
\* compose it, append it
NfcLoop ==
    /\ npc = "loop"
    /\ nfc_pos < Len(decomposed)
    /\ seq_start_pos' = nfc_pos
    /\ nfc_pos' = seq_end_pos(decomposed, nfc_pos + 1)
    /\ seq' = sort_by(Slice(decomposed, nfc_pos, nfc_pos'))
    /\ normalised_code_points' = normalised_code_points \o compose(seq')
    /\ UNCHANGED <<nfc_cps, decomposed, npc>>
    /\ UNCHANGED <<fixVars, codecVars, trieVars, qcVars, lcVars, cmVars, segVars, collVars>>

\* to_nfc, lines 61 and 83: the loop is over, normalised_code_points is returned
NfcReturn ==
    /\ npc = "loop"
    /\ nfc_pos >= Len(decomposed)
    /\ npc' = "done"
    /\ UNCHANGED <<nfc_cps, decomposed, nfc_pos, seq_start_pos, seq, normalised_code_points>>
    /\ UNCHANGED <<fixVars, codecVars, trieVars, qcVars, lcVars, cmVars, segVars, collVars>>

(***************************************************************************)
(* normalise.rs: to_nfd.  case.rs and collation.rs import it from          *)
(* normalise.rs, which does not define it; it is modelled as specified:    *)
(* full recursive decomposition, then a stable sort by combining class of  *)
(* every maximal run that begins at a starter and continues through        *)
(* non-starters (and of a leading run of non-starters).                    *)
(***************************************************************************)
RECURSIVE canonical_order_from(_, _, _)
canonical_order_from(dec, p, out) ==
    IF p < Len(dec)
    THEN LET e == seq_end_pos(dec, p + 1)
         IN  canonical_order_from(dec, e, out \o sort_by(Slice(dec, p, e)))
    ELSE out

to_nfd(code_points) == canonical_order_from(decompose_fold(code_points), 0, <<>>)

\* The codepoints to_nfc is run on: a base letter, marks of class 220 and
\* 230 (two of them 230, one composing with the letter and one not), the
\* composites of the letter with one and with two marks, a singleton
\* decomposition, and the Hangul jamo and syllables L, V, T, LV, LVT
NfcCodepoints ==
    {65, 770, 787, 803, 194, 7840, 7852, 835, 4352, 4449, 4520, 44032, 44033}

(***************************************************************************)
(* normalise.rs: quick_check                                               *)
(***************************************************************************)
\* NFC_QC_M and NFC_QC_N, ucd.rs lines 12-24: the rows of the model's codepoints
NFC_QC_M == {770, 787, 803, 837, 4449, 4520}
NFC_QC_N == {835}

\* quick_check calls nfc_is_allowed, which ucd.rs has as the NFC arm of
\* is_allowed, lines 132-140
nfc_is_allowed(code_point) ==
    IF code_point \in NFC_QC_M THEN "Maybe"
    ELSE IF code_point \in NFC_QC_N THEN "No"
    ELSE "Yes"

\* quick_check with the misordering test `last_canonical_class > ccc` alone
QcNext_DropsZeroTest ==
    /\ qpc = "loop"
    /\ LET n == CodePointIter_next(qc_bytes, qc_iter_pos)
           ccc == combining_class(n.code_point)
           allowed == nfc_is_allowed(n.code_point)
       IN  /\ n.kind # "None"
           /\ qc_iter_pos' = n.pos
           /\ IF n.kind = "Panic"
              THEN qpc' = "abort" /\ UNCHANGED <<last_canonical_class, qc_result, qc_returned>>
              ELSE IF last_canonical_class > ccc \/ allowed = "No"
              THEN /\ qc_returned' = "No"
                   /\ qpc' = "done"
                   /\ UNCHANGED <<last_canonical_class, qc_result>>
              ELSE /\ qc_result' = IF allowed = "Maybe" THEN "Maybe" ELSE qc_result
                   /\ last_canonical_class' = ccc
                   /\ UNCHANGED <<qc_returned, qpc>>
    /\ UNCHANGED qc_bytes
    /\ UNCHANGED <<fixVars, codecVars, trieVars, nfcVars, lcVars, cmVars, segVars, collVars>>

\* quick_check, lines 18-33: one round of the for loop.  The iterator yields
\* a codepoint (or panics on bytes that are not UTF-8); a misordered class
\* or a No flag returns No at once.
QcNext ==
    /\ qpc = "loop"
    /\ LET n == CodePointIter_next(qc_bytes, qc_iter_pos)
           ccc == combining_class(n.code_point)
           allowed == nfc_is_allowed(n.code_point)
       IN  /\ n.kind # "None"
           /\ qc_iter_pos' = n.pos
           /\ IF n.kind = "Panic"
              THEN qpc' = "abort" /\ UNCHANGED <<last_canonical_class, qc_result, qc_returned>>
              ELSE IF (last_canonical_class > ccc /\ ccc # 0) \/ allowed = "No"
              THEN /\ qc_returned' = "No"
                   /\ qpc' = "done"
                   /\ UNCHANGED <<last_canonical_class, qc_result>>
              ELSE /\ qc_result' = IF allowed = "Maybe" THEN "Maybe" ELSE qc_result
                   /\ last_canonical_class' = ccc
                   /\ UNCHANGED <<qc_returned, qpc>>
    /\ UNCHANGED qc_bytes
    /\ UNCHANGED <<fixVars, codecVars, trieVars, nfcVars, lcVars, cmVars, segVars, collVars>>

\* quick_check, lines 18 and 35: the iterator is exhausted, result is returned
QcReturn ==
    /\ qpc = "loop"
    /\ CodePointIter_next(qc_bytes, qc_iter_pos).kind = "None"
    /\ qc_returned' = qc_result
    /\ qpc' = "done"
    /\ UNCHANGED <<qc_bytes, qc_iter_pos, last_canonical_class, qc_result>>
    /\ UNCHANGED <<fixVars, codecVars, trieVars, nfcVars, lcVars, cmVars, segVars, collVars>>

\* The codepoints quick_check is run on, each with its UTF-8 bytes: a
\* starter, marks with flag Maybe of class 230 and 220, marks with flag Yes
\* of class 230 and 220, and a mark with flag No
QcCodepoints == {65, 770, 803, 773, 790, 835}

Utf8(code_point) ==
    CASE code_point = 65 -> <<65>>
      [] code_point = 770 -> <<204, 130>>
      [] code_point = 773 -> <<204, 133>>
      [] code_point = 790 -> <<204, 150>>
      [] code_point = 803 -> <<204, 163>>
      [] code_point = 835 -> <<205, 131>>

RECURSIVE Utf8Of(_)
Utf8Of(code_points) ==
    IF code_points = <<>> THEN <<>>
    ELSE Utf8(Head(code_points)) \o Utf8Of(Tail(code_points))

(***************************************************************************)
(* case.rs: to_lowercase and is_final_sigma, with the case tables of ucd.rs*)
(***************************************************************************)
\* LOWERCASE_MAPPINGS and lowercase_mapping, ucd.rs lines 73-77 and 157-159
lowercase_mapping(code_point) ==
    CASE code_point = 65 -> <<97>>
      [] code_point = 913 -> <<945>>
      [] code_point = 914 -> <<946>>
      [] code_point = 931 -> <<963>>
      [] OTHER -> <<>>

\* CASED and cased, ucd.rs lines 80-82 and 165-167.  U+0345 is cased
\* (Other_Lowercase) and case-ignorable (a nonspacing mark).
cased(code_point) ==
    code_point \in {65, 97, 304, 837, 913, 914, 931, 945, 946, 953, 962, 963,
                    7936, 8064, 8115}

\* CASE_IGNORABLE and case_ignorable, ucd.rs lines 85-87 and 169-171
case_ignorable(code_point) ==
    code_point \in {46, 770, 773, 787, 790, 803, 835, 837}

\* is_final_sigma, lines 42-45 and 53-56: skip_while(case_ignorable) over
\* the codepoints from index i on in steps of dir, then next(): the index of
\* the first codepoint that is not case-ignorable, OutOfBounds for None
RECURSIVE skip_while_case_ignorable(_, _, _)
skip_while_case_ignorable(code_points, i, dir) ==
    IF i < 0 \/ i >= Len(code_points) THEN OutOfBounds
    ELSE IF case_ignorable(At(code_points, i))
         THEN skip_while_case_ignorable(code_points, i + dir, dir)
         ELSE i

\* is_final_sigma with skip(sigma_pos) for skip(sigma_pos + 1): the sigma
\* itself is the first codepoint looked at after it
is_final_sigma_SkipsOneLess(code_points, sigma_pos) ==
    LET prev == skip_while_case_ignorable(code_points, sigma_pos - 1, -1)
        next == skip_while_case_ignorable(code_points, sigma_pos, 1)
        prev_char_cased == prev # OutOfBounds /\ cased(At(code_points, prev))
        next_char_cased == next # OutOfBounds /\ cased(At(code_points, next))
    IN  prev_char_cased /\ (prev_char_cased /\ ~next_char_cased)

\* is_final_sigma, lines 39-63
is_final_sigma(code_points, sigma_pos) ==
    LET prev == skip_while_case_ignorable(code_points, sigma_pos - 1, -1)
        next == skip_while_case_ignorable(code_points, sigma_pos + 1, 1)
        prev_char_cased == prev # OutOfBounds /\ cased(At(code_points, prev))
        next_char_cased == next # OutOfBounds /\ cased(At(code_points, next))
    IN  prev_char_cased /\ (prev_char_cased /\ ~next_char_cased)

\* to_lowercase, lines 18-30: one round of the while loop
LowerNext ==
    /\ lpc = "loop"
    /\ lc_pos < Len(lc_code_points)
    /\ LET code_point == At(lc_code_points, lc_pos)
           mapped == lowercase_mapping(code_point)
       IN  lc_out' =
              CASE code_point = 304 -> lc_out \o <<105, 775>>
                [] code_point = 931 ->
                     Append(lc_out, IF is_final_sigma(lc_code_points, lc_pos) THEN 962 ELSE 963)
                [] OTHER -> Append(lc_out, IF mapped # <<>> THEN mapped[1] ELSE code_point)
    /\ lc_pos' = lc_pos + 1
    /\ UNCHANGED <<lc_code_points, lpc>>
    /\ UNCHANGED <<fixVars, codecVars, trieVars, nfcVars, qcVars, cmVars, segVars, collVars>>

\* to_lowercase, lines 18 and 31: the loop is over, out is returned
LowerReturn ==
    /\ lpc = "loop"
    /\ lc_pos >= Len(lc_code_points)
    /\ lpc' = "done"
    /\ UNCHANGED <<lc_code_points, lc_pos, lc_out>>
    /\ UNCHANGED <<fixVars, codecVars, trieVars, nfcVars, qcVars, cmVars, segVars, collVars>>

\* The codepoints to_lowercase is run on: the sigma, a cased letter, a
\* case-ignorable full stop, the ypogegrammeni that is both, a space that is
\* neither, and the letter whose lowercase is two codepoints
LcCodepoints == {931, 913, 46, 837, 32, 304}

(***************************************************************************)
(* case.rs: case_fold and canonical_caseless_match                         *)
(***************************************************************************)
\* FULL_CASE_FOLDING and case_folding, ucd.rs lines 90-92 and 173-175
case_folding(code_point) ==
    CASE code_point = 65 -> << <<97>> >>
      [] code_point = 837 -> << <<953>> >>
      [] code_point = 913 -> << <<945>> >>
      [] code_point = 931 -> << <<963>> >>
      [] code_point = 962 -> << <<963>> >>
      [] code_point = 8064 -> << <<7936, 953>> >>
      [] code_point = 8115 -> << <<945, 953>> >>
      [] OTHER -> <<>>

\* case_fold, lines 93-101: the list of codepoints decomposed before folding
ypogegrammenic ==
    {8064, 8065, 8066, 8067, 8068, 8069, 8070, 8071, 8072, 8073, 8074,
     8075, 8076, 8077, 8078, 8079, 8080, 8081, 8082, 8083, 8084, 8085,
     8086, 8087, 8088, 8089, 8090, 8091, 8092, 8093, 8094, 8095, 8096,
     8097, 8098, 8099, 8100, 8101, 8102, 8103, 8104, 8105, 8106, 8107,
     8108, 8109, 8110, 8111, 8114, 8115, 8116, 8119, 8124, 8130, 8131,
     8132, 8135, 8140, 8178, 8179, 8180, 8183, 8188}

\* normalise::decompose, imported by case.rs and not defined in normalise.rs:
\* the full decomposition of one codepoint
decompose(code_point) == decompose_cp(code_point)

\* case_fold, lines 104 and 106: out.extend(case_folding(cp).unwrap_or(vec![cp]))
\* for every cp of a sequence
RECURSIVE fold_each(_)
fold_each(code_points) ==
    IF code_points = <<>> THEN <<>>
    ELSE LET cp == Head(code_points)
             folded == case_folding(cp)
         IN  (IF folded # <<>> THEN folded[1] ELSE <<cp>>) \o fold_each(Tail(code_points))

\* case_fold, lines 91-111
RECURSIVE case_fold(_)
case_fold(code_points) ==
    IF code_points = <<>> THEN <<>>
    ELSE LET code_point == Head(code_points)
         IN  (IF code_point \in ypogegrammenic
              THEN fold_each(decompose(code_point))
              ELSE fold_each(<<code_point>>)) \o case_fold(Tail(code_points))

\* Vec<u32>::cmp: the lexicographic Ordering of two sequences
RECURSIVE cmp(_, _)
cmp(a, b) ==
    CASE a = <<>> /\ b = <<>> -> "Equal"
      [] a = <<>> /\ b # <<>> -> "Less"
      [] a # <<>> /\ b = <<>> -> "Greater"
      [] OTHER -> IF Head(a) < Head(b) THEN "Less"
                  ELSE IF Head(a) > Head(b) THEN "Greater"
                  ELSE cmp(Tail(a), Tail(b))

\* canonical_caseless_match, lines 81-83
canonical_caseless_match(x, y) == cmp(to_nfd(case_fold(x)), to_nfd(case_fold(y)))

\* A caller compares cm_x with cm_y
CaselessMatch ==
    /\ cm_result = "None"
    /\ cm_result' = canonical_caseless_match(cm_x, cm_y)
    /\ UNCHANGED <<cm_x, cm_y>>
    /\ UNCHANGED <<fixVars, codecVars, trieVars, nfcVars, qcVars, lcVars, segVars, collVars>>

\* The codepoints canonical_caseless_match is run on: an upper- and a
\* lowercase letter, the ypogegrammeni (class 240, folded to the starter
\* iota), a mark of class 230, and two letters of the list, one of them with
\* that mark in its decomposition
CmCodepoints == {913, 945, 837, 787, 8115, 8064}

(***************************************************************************)
(* segmentation.rs: GraphemeIter                                           *)
(***************************************************************************)
\* GRAPHEME_CLUSTER_BREAK and grapheme_cluster_break, ucd.rs lines 97-99 and
\* 200-205; XX when the table has no row
grapheme_cluster_break(code_point) ==
    CASE code_point = 1 -> "CN"
      [] code_point = 13 -> "CR"
      [] code_point = 10 -> "LF"
      [] code_point \in {770, 773, 787, 790, 803, 835, 837} -> "EX"
      [] code_point = 8205 -> "ZWJ"
      [] code_point = 2307 -> "SM"
      [] code_point = 1536 -> "PP"
      [] code_point = 127462 -> "RI"
      [] code_point = 4352 -> "L"
      [] code_point = 4449 -> "V"
      [] code_point = 4520 -> "T"
      [] code_point = 44032 -> "LV"
      [] code_point = 44033 -> "LVT"
      [] OTHER -> "XX"

\* the match with the arms of GB9, GB9a and GB9b put before those of GB4
\* and GB5
keeps_going_ExtendFirst(cp, next, ri_count) ==
    CASE cp = "CR" /\ next = "LF" -> TRUE
      [] next \in {"EX", "ZWJ", "SM"} -> TRUE
      [] cp = "PP" -> TRUE
      [] cp \in {"CN", "CR", "LF"} -> FALSE
      [] next \in {"CN", "CR", "LF"} -> FALSE
      [] cp = "L" /\ next \in {"L", "V", "LV", "LVT"} -> TRUE
      [] cp \in {"LV", "V"} /\ next \in {"V", "T"} -> TRUE
      [] cp \in {"LVT", "T"} /\ next = "T" -> TRUE
      [] cp = "RI" /\ next = "RI" -> ri_count % 2 = 1
      [] OTHER -> FALSE

\* the match with the guards of the two (RI, RI) arms exchanged
keeps_going_EvenJoins(cp, next, ri_count) ==
    CASE cp = "CR" /\ next = "LF" -> TRUE
      [] cp \in {"CN", "CR", "LF"} -> FALSE
      [] next \in {"CN", "CR", "LF"} -> FALSE
      [] cp = "L" /\ next \in {"L", "V", "LV", "LVT"} -> TRUE
      [] cp \in {"LV", "V"} /\ next \in {"V", "T"} -> TRUE
      [] cp \in {"LVT", "T"} /\ next = "T" -> TRUE
      [] next \in {"EX", "ZWJ", "SM"} -> TRUE
      [] cp = "PP" -> TRUE
      [] cp = "RI" /\ next = "RI" -> ri_count % 2 = 0
      [] OTHER -> FALSE

\* next, lines 40-65: the arm of `match (cp, next)` that is taken, TRUE for
\* `self.pos += 1` and FALSE for `break`; ri_count is the count after line 40
keeps_going(cp, next, ri_count) ==
    CASE cp = "CR" /\ next = "LF" -> TRUE
      [] cp \in {"CN", "CR", "LF"} -> FALSE
      [] next \in {"CN", "CR", "LF"} -> FALSE
      [] cp = "L" /\ next \in {"L", "V", "LV", "LVT"} -> TRUE
      [] cp \in {"LV", "V"} /\ next \in {"V", "T"} -> TRUE
      [] cp \in {"LVT", "T"} /\ next = "T" -> TRUE
      [] next \in {"EX", "ZWJ", "SM"} -> TRUE
      [] cp = "PP" -> TRUE
      [] cp = "RI" /\ next = "RI" -> ri_count % 2 = 1
      [] OTHER -> FALSE

\* the while loop with the condition `self.pos < self.code_points.len()`
RECURSIVE while_pos_PastLast(_, _, _)
while_pos_PastLast(code_points, p, ri_count) ==
    IF p < Len(code_points)
    THEN LET cp == grapheme_cluster_break(At(code_points, p))
             next == grapheme_cluster_break(At(code_points, p + 1))
             ri == IF cp = "RI" THEN ri_count + 1 ELSE 0
         IN  IF keeps_going(cp, next, ri)
             THEN while_pos_PastLast(code_points, p + 1, ri)
             ELSE p
    ELSE p

\* next, lines 37-66: the while loop from self.pos = p on; the value of
\* self.pos when the loop is left
RECURSIVE while_pos(_, _, _)
while_pos(code_points, p, ri_count) ==
    IF p < Len(code_points) - 1
    THEN LET cp == grapheme_cluster_break(At(code_points, p))
             next == grapheme_cluster_break(At(code_points, p + 1))
             ri == IF cp = "RI" THEN ri_count + 1 ELSE 0
         IN  IF keeps_going(cp, next, ri)
             THEN while_pos(code_points, p + 1, ri)
             ELSE p
    ELSE p

\* GraphemeIter::next, lines 24-69: one call by the consumer.  None ends the
\* iteration; otherwise the slice code_points[start..self.pos] is returned.
GraphemeNext ==
    /\ gpc = "iterating"
    /\ IF g_pos >= Len(g_code_points)
       THEN /\ gpc' = "done"
            /\ UNCHANGED <<g_pos, yielded>>
       ELSE IF g_pos = Len(g_code_points) - 1
       THEN /\ g_pos' = g_pos + 1
            /\ yielded' = Append(yielded, <<g_pos, Len(g_code_points)>>)
            /\ UNCHANGED gpc
       ELSE /\ g_pos' = while_pos(g_code_points, g_pos, 0) + 1
            /\ yielded' = Append(yielded, <<g_pos, g_pos'>>)
            /\ UNCHANGED gpc
    /\ UNCHANGED g_code_points
    /\ UNCHANGED <<fixVars, codecVars, trieVars, nfcVars, qcVars, lcVars, cmVars, collVars>>

\* The codepoints GraphemeIter is run on: one of every
\* Grapheme_Cluster_Break value the match tells apart
SegCodepoints ==
    {1, 13, 10, 770, 8205, 2307, 1536, 127462, 4352, 4449, 4520, 44032, 44033, 65}

(***************************************************************************)
(* collation.rs: to_sort_key.  A CollationElement is a record with the     *)
(* fields weights (a sequence of u16) and variable.                        *)
(***************************************************************************)
\* to_sort_key, lines 138-143: the inner for loop at one level (0-based)
\* over the elements from index i on; a missing weight is OutOfBounds
RECURSIVE level_weights(_, _, _)
level_weights(elements, lvl, i) ==
    IF i >= Len(elements) THEN <<>>
    ELSE LET weight == At(At(elements, i).weights, lvl)
             rest == level_weights(elements, lvl, i + 1)
         IN  IF weight = OutOfBounds \/ rest = <<OutOfBounds>> THEN <<OutOfBounds>>
             ELSE IF weight > 0 THEN <<weight>> \o rest
             ELSE rest

\* to_sort_key, lines 134-136: weight_count = ces[0].weights.len() panics on
\* an empty vector
SortKeyStart ==
    /\ kpc = "to_sort_key"
    /\ IF ces = <<>>
       THEN kpc' = "abort"
       ELSE kpc' = "levels"
    /\ level' = 0
    /\ sort_key' = <<>>
    /\ UNCHANGED <<sk_code_points, variable_weighting, nfd, ce_pos, ce_s, acc_collation_elements, ces>>
    /\ UNCHANGED <<fixVars, codecVars, trieVars, nfcVars, qcVars, lcVars, cmVars, segVars>>

\* to_sort_key, lines 137-145: one round of the loop over the levels; the
\* index ce.weights[level] panics when an element has fewer weights
SortKeyLevel ==
    /\ kpc = "levels"
    /\ level < Len(At(ces, 0).weights)
    /\ LET pushed == level_weights(ces, level, 0)
       IN  IF pushed = <<OutOfBounds>>
           THEN kpc' = "abort" /\ UNCHANGED <<level, sort_key>>
           ELSE /\ sort_key' = sort_key \o pushed \o <<0>>
                /\ level' = level + 1
                /\ UNCHANGED kpc
    /\ UNCHANGED <<sk_code_points, variable_weighting, nfd, ce_pos, ce_s, acc_collation_elements, ces>>
    /\ UNCHANGED <<fixVars, codecVars, trieVars, nfcVars, qcVars, lcVars, cmVars, segVars>>

\* to_sort_key with the line `sort_key.pop()` of line 146 in force
SortKeyReturn_PopsSeparator ==
    /\ kpc = "levels"
    /\ level >= Len(At(ces, 0).weights)
    /\ sort_key' = SubSeq(sort_key, 1, Len(sort_key) - 1)
    /\ kpc' = "done"
    /\ UNCHANGED <<sk_code_points, variable_weighting, nfd, ce_pos, ce_s, acc_collation_elements,
                   ces, level>>
    /\ UNCHANGED <<fixVars, codecVars, trieVars, nfcVars, qcVars, lcVars, cmVars, segVars>>

\* to_sort_key, lines 137 and 147: the levels are done, sort_key is returned
SortKeyReturn ==
    /\ kpc = "levels"
    /\ level >= Len(At(ces, 0).weights)
    /\ kpc' = "done"
    /\ UNCHANGED <<sk_code_points, variable_weighting, nfd, ce_pos, ce_s, acc_collation_elements,
                   ces, level, sort_key>>
    /\ UNCHANGED <<fixVars, codecVars, trieVars, nfcVars, qcVars, lcVars, cmVars, segVars>>

\* The collation elements to_sort_key is run on: up to MaxLevels weights
\* each, zero and non-zero
Weights == {0, 1, 2}
Elements ==
    {[weights |-> w, variable |-> FALSE] : w \in SeqsUpTo(Weights, MaxLevels) \ {<<>>}}

(***************************************************************************)
(* collation.rs: to_collation_elements and what it calls                   *)
(***************************************************************************)
\* Trie::from_kvs, trie.rs lines 20-37, as one fold over the pairs
RECURSIVE from_kvs(_, _, _)
from_kvs(kvs, node, order) ==
    IF kvs = <<>> THEN node
    ELSE from_kvs(Tail(kvs), insert(node, key_chain(Head(kvs)[1], order), Head(kvs)[2]), order)

\* The rows of the collation element table the model works with.  Single
\* codepoints: two letters, the variable middle dot and four
\* primary-ignorable marks; U+4E00 has no row.  Contractions of every shape
\* the builder tells apart: two starters (L + middle dot), two starters and
\* a mark, three starters whose first two have no row of their own, a
\* starter and a mark (Cyrillic I + breve), and a starter and two marks
\* whose first two have no row of their own.
CollationTable ==
    << << <<76>>, << [weights |-> <<7543, 32, 8>>, variable |-> FALSE] >> >>,
       << <<183>>, << [weights |-> <<648, 32, 2>>, variable |-> TRUE] >> >>,
       << <<770>>, << [weights |-> <<0, 39, 2>>, variable |-> FALSE] >> >>,
       << <<774>>, << [weights |-> <<0, 55, 2>>, variable |-> FALSE] >> >>,
       << <<790>>, << [weights |-> <<0, 48, 2>>, variable |-> FALSE] >> >>,
       << <<803>>, << [weights |-> <<0, 66, 2>>, variable |-> FALSE] >> >>,
       << <<1048>>, << [weights |-> <<8409, 32, 8>>, variable |-> FALSE] >> >>,
       << <<76, 183>>, << [weights |-> <<7544, 32, 8>>, variable |-> FALSE] >> >>,
       << <<76, 183, 774>>, << [weights |-> <<7545, 32, 8>>, variable |-> FALSE] >> >>,
       << <<1048, 76, 183>>, << [weights |-> <<8415, 32, 8>>, variable |-> FALSE] >> >>,
       << <<1048, 774>>, << [weights |-> <<8413, 32, 8>>, variable |-> FALSE] >> >>,
       << <<1048, 803, 770>>, << [weights |-> <<8414, 32, 8>>, variable |-> FALSE] >> >> >>

\* ucd::collation_elements, imported at collation.rs:4 and not defined in
\* ucd.rs: the lookup of s in the trie built from the table
CollationTrie == from_kvs(CollationTable, empty, "little")

collation_elements(s) == get(CollationTrie, s, "little")

\* ucd::unified_ideograph, imported at collation.rs:4 and not defined in
\* ucd.rs: the Unified_Ideograph property, for the blocks CJK Unified
\* Ideographs Extension A, CJK Unified Ideographs, the twelve unified
\* ideographs of CJK Compatibility Ideographs, and Extension B
unified_ideograph(code_point) ==
    \/ code_point >= 13312 /\ code_point <= 19903
    \/ code_point >= 19968 /\ code_point <= 40959
    \/ code_point \in {64014, 64015, 64017, 64019, 64020, 64031, 64033, 64035, 64036,
                       64039, 64040, 64041}
    \/ code_point >= 131072 /\ code_point <= 173791

\* to_collation_elements, lines 28-42: the loop `while let Some(cp) =
\* nfd.get(pos + 1)` of the contiguous step; todo!() aborts
RECURSIVE contiguous(_, _, _)
contiguous(buf, p, s) ==
    LET \* the match of lines 30-41 on collation_elements(&s) after the push
        matched(pushed, found) ==
            CASE found = "Match" -> contiguous(remove(buf, p + 1), p, pushed)
              [] found = "PartialMatch" -> [nfd |-> buf, s |-> pushed, abort |-> TRUE]
              [] OTHER -> [nfd |-> buf, s |-> s, abort |-> FALSE]
    IN  IF p + 1 >= Len(buf) THEN [nfd |-> buf, s |-> s, abort |-> FALSE]
        ELSE matched(Append(s, At(buf, p + 1)),
                     collation_elements(Append(s, At(buf, p + 1))).kind)

\* to_collation_elements, lines 52-75: the loop over the non-starters that
\* follow S contiguously, partial matches allowed
RECURSIVE non_starters(_, _, _, _, _, _)
non_starters(buf, p, s, offset, last_cc, mid_partial) ==
    LET cp == At(buf, p + offset)
        cc == combining_class(cp)
        unblocked_non_starter == ~is_starter(cp) /\ cc > last_cc
        stop == [s |-> s, offset |-> offset, mid_partial |-> mid_partial]
        \* the match of lines 57-70 on collation_elements(&s) after the push
        matched(pushed, found) ==
            CASE found = "Match" -> non_starters(buf, p, pushed, offset + 1, cc, FALSE)
              [] found = "PartialMatch" -> non_starters(buf, p, pushed, offset + 1, cc, TRUE)
              [] OTHER -> stop
    IN  IF p + offset >= Len(buf) THEN stop
        ELSE IF ~unblocked_non_starter THEN stop
        ELSE matched(Append(s, cp), collation_elements(Append(s, cp)).kind)

\* the loop of the discontiguous step with `break` in the NoMatch arm
RECURSIVE discontiguous_StopsAtNoMatch(_, _, _, _, _)
discontiguous_StopsAtNoMatch(buf, p, s, offset, last_cc) ==
    LET cp == At(buf, p + offset)
        cc == combining_class(cp)
        unblocked_non_starter == ~is_starter(cp) /\ cc > last_cc
        pushed == Append(s, cp)
        found == collation_elements(pushed).kind
    IN  IF p + offset >= Len(buf) THEN [nfd |-> buf, s |-> s]
        ELSE IF ~unblocked_non_starter THEN [nfd |-> buf, s |-> s]
        ELSE CASE found = "Match" ->
                      discontiguous_StopsAtNoMatch(remove(buf, p + offset), p, pushed, offset, cc)
               [] found = "PartialMatch" ->
                      discontiguous_StopsAtNoMatch(buf, p, s, offset + 1, cc)
               [] OTHER -> [nfd |-> buf, s |-> s]

\* to_collation_elements, lines 86-112: the loop of the discontiguous step
RECURSIVE discontiguous(_, _, _, _, _)
discontiguous(buf, p, s, offset, last_cc) ==
    LET cp == At(buf, p + offset)
        cc == combining_class(cp)
        unblocked_non_starter == ~is_starter(cp) /\ cc > last_cc
        pushed == Append(s, cp)
        found == collation_elements(pushed).kind
    IN  IF p + offset >= Len(buf) THEN [nfd |-> buf, s |-> s]
        ELSE IF ~unblocked_non_starter THEN [nfd |-> buf, s |-> s]
        ELSE IF found = "Match"
             THEN discontiguous(remove(buf, p + offset), p, pushed, offset, cc)
             ELSE discontiguous(buf, p, s, offset + 1, cc)

\* the two contiguous steps without `pos += offset - 1`
contiguous_steps_KeepsCursor(buf, p) ==
    LET next_is(b, q, starter) == q + 1 < Len(b) /\ is_starter(At(b, q + 1)) = starter
        after_non_starters(c, n) ==
            [nfd |-> c.nfd,
             s |-> IF n.mid_partial THEN c.s ELSE n.s,
             pos |-> p,
             abort |-> c.abort]
        after_starters(c) ==
            after_non_starters(c, IF next_is(c.nfd, p, FALSE)
                                  THEN non_starters(c.nfd, p, c.s, 1, 0, FALSE)
                                  ELSE [s |-> c.s, offset |-> 1, mid_partial |-> FALSE])
    IN  after_starters(IF next_is(buf, p, TRUE) THEN contiguous(buf, p, <<At(buf, p)>>)
                       ELSE [nfd |-> buf, s |-> <<At(buf, p)>>, abort |-> FALSE])

\* to_collation_elements, lines 25-81: S, the buffer and the cursor after
\* the two contiguous steps of one round of the outer loop
contiguous_steps(buf, p) ==
    LET \* lines 27 and 47: nfd.get(pos + 1).map(is_starter) is Some(starter)
        next_is(b, q, starter) == q + 1 < Len(b) /\ is_starter(At(b, q + 1)) = starter
        \* lines 76-80, c from the step over starters, n from the one over
        \* non-starters
        after_non_starters(c, n) ==
            [nfd |-> c.nfd,
             s |-> IF n.mid_partial THEN c.s ELSE n.s,
             pos |-> IF n.mid_partial THEN p ELSE p + n.offset - 1,
             abort |-> c.abort]
        \* lines 47-75
        after_starters(c) ==
            after_non_starters(c, IF next_is(c.nfd, p, FALSE)
                                  THEN non_starters(c.nfd, p, c.s, 1, 0, FALSE)
                                  ELSE [s |-> c.s, offset |-> 1, mid_partial |-> FALSE])
    IN  \* lines 25-43
        after_starters(IF next_is(buf, p, TRUE) THEN contiguous(buf, p, <<At(buf, p)>>)
                       ELSE [nfd |-> buf, s |-> <<At(buf, p)>>, abort |-> FALSE])

\* to_collation_elements, lines 25-114: S and the buffer after the three
\* steps of one round of the outer loop, and the cursor before `pos += 1`
find_s(buf, p) ==
    LET after_discontiguous(b, d) ==
            [nfd |-> d.nfd, s |-> d.s, pos |-> b.pos, abort |-> b.abort]
        \* line 83: nfd.get(pos + 1).map(is_starter) is Some(false)
        after_contiguous(b) ==
            after_discontiguous(b, IF b.pos + 1 < Len(b.nfd) /\ ~is_starter(At(b.nfd, b.pos + 1))
                                   THEN discontiguous(b.nfd, b.pos, b.s, 1, 0)
                                   ELSE [nfd |-> b.nfd, s |-> b.s])
    IN  after_contiguous(contiguous_steps(buf, p))

\* derive_collation_elements with (cp & 0x7FFF) | 0x8000 in every arm
derive_collation_elements_MasksEveryBlock(s) ==
    LET cp == Head(s)
        rest == (cp % 32768) + 32768
        aaaa == CASE cp >= 94208 /\ cp <= 101119 -> 64256
                  [] cp >= 101632 /\ cp <= 101775 -> 64256
                  [] cp >= 110960 /\ cp <= 111359 -> 64257
                  [] cp >= 101120 /\ cp <= 101631 -> 64258
                  [] cp >= 19968 /\ cp <= 40959 /\ unified_ideograph(cp) ->
                         64320 + (cp \div 32768)
                  [] cp >= 63744 /\ cp <= 64255 /\ unified_ideograph(cp) ->
                         64320 + (cp \div 32768)
                  [] OTHER -> IF unified_ideograph(cp)
                              THEN 64384 + (cp \div 32768)
                              ELSE 64448 + (cp \div 32768)
    IN  << [weights |-> <<aaaa % 65536, 32, 2>>, variable |-> FALSE],
           [weights |-> <<rest % 65536, 0, 0>>, variable |-> FALSE] >>

\* derive_collation_elements, lines 157-186; `as u16` keeps the low 16 bits
derive_collation_elements(s) ==
    LET cp == Head(s)
        \* x | 0x8000 on u32
        bitor_8000(x) == IF (x \div 32768) % 2 = 1 THEN x ELSE x + 32768
        rest == bitor_8000(cp % 32768)
        ab == CASE cp >= 94208 /\ cp <= 101119 -> <<64256, bitor_8000(cp - 94208)>>
                [] cp >= 101632 /\ cp <= 101775 -> <<64256, bitor_8000(cp - 94208)>>
                [] cp >= 110960 /\ cp <= 111359 -> <<64257, bitor_8000(cp - 110960)>>
                [] cp >= 101120 /\ cp <= 101631 -> <<64258, bitor_8000(cp - 101120)>>
                [] cp >= 19968 /\ cp <= 40959 /\ unified_ideograph(cp) ->
                       <<64320 + (cp \div 32768), rest>>
                [] cp >= 63744 /\ cp <= 64255 /\ unified_ideograph(cp) ->
                       <<64320 + (cp \div 32768), rest>>
                [] OTHER -> IF unified_ideograph(cp)
                            THEN <<64384 + (cp \div 32768), rest>>
                            ELSE <<64448 + (cp \div 32768), rest>>
    IN  << [weights |-> <<ab[1] % 65536, 32, 2>>, variable |-> FALSE],
           [weights |-> <<ab[2] % 65536, 0, 0>>, variable |-> FALSE] >>

\* ignorable, lines 213-215
ignorable(ce) == ce.weights[1] = 0

\* apply_variable_weighting, the Blanked arm, lines 195-205
RECURSIVE blank(_, _)
blank(elements, blanking) ==
    IF elements = <<>> THEN <<>>
    ELSE LET ce == Head(elements)
             \* vec![0; ce.weights.len()]
             zeroed(e) == [e EXCEPT !.weights = [i \in 1..Len(e.weights) |-> 0]]
         IN  IF ce.variable THEN <<zeroed(ce)>> \o blank(Tail(elements), TRUE)
             ELSE IF blanking /\ ignorable(ce)
                  THEN <<zeroed(ce)>> \o blank(Tail(elements), blanking)
             ELSE <<ce>> \o blank(Tail(elements), FALSE)

\* apply_variable_weighting, lines 188-210; todo!() aborts
apply_variable_weighting(elements, weighting) ==
    CASE weighting = "NonIgnorable" -> [ces |-> elements, abort |-> FALSE]
      [] weighting = "Blanked" -> [ces |-> blank(elements, FALSE), abort |-> FALSE]
      [] OTHER -> [ces |-> elements, abort |-> TRUE]

\* to_collation_elements, lines 120-123
elements_of(s) ==
    LET matched(found) ==
            IF found.kind = "Match" THEN found.val[1] ELSE derive_collation_elements(s)
    IN  matched(collation_elements(s))

\* sort_key, lines 13-14, up to the first test of to_collation_elements's loop
SortKeyCall ==
    /\ kpc = "sort_key"
    /\ nfd' = to_nfd(sk_code_points)
    /\ acc_collation_elements' = <<>>
    /\ ce_pos' = 0
    /\ kpc' = "elements"
    /\ UNCHANGED <<sk_code_points, variable_weighting, ce_s, ces, level, sort_key>>
    /\ UNCHANGED <<fixVars, codecVars, trieVars, nfcVars, qcVars, lcVars, cmVars, segVars>>

\* One round of to_collation_elements's outer loop, lines 24-129
CollationNext ==
    /\ kpc = "elements"
    /\ ce_pos < Len(nfd)
    /\ LET \* lines 125-127, and the todo!() of line 35
           round(found, weighted) ==
               IF found.abort
               THEN /\ ce_s' = found.s
                    /\ kpc' = "todo"
                    /\ UNCHANGED <<nfd, ce_pos, acc_collation_elements>>
               ELSE /\ nfd' = found.nfd
                    /\ ce_pos' = found.pos + 1
                    /\ ce_s' = found.s
                    /\ IF weighted.abort
                       THEN kpc' = "todo" /\ UNCHANGED acc_collation_elements
                       ELSE /\ acc_collation_elements' = acc_collation_elements \o weighted.ces
                            /\ UNCHANGED kpc
           \* lines 120-125
           lookup(found) ==
               round(found, apply_variable_weighting(elements_of(found.s), variable_weighting))
       IN  lookup(find_s(nfd, ce_pos))
    /\ UNCHANGED <<sk_code_points, variable_weighting, ces, level, sort_key>>
    /\ UNCHANGED <<fixVars, codecVars, trieVars, nfcVars, qcVars, lcVars, cmVars, segVars>>

\* to_collation_elements's return, line 130, and sort_key's call of
\* to_sort_key, line 15
CollationReturn ==
    /\ kpc = "elements"
    /\ ce_pos >= Len(nfd)
    /\ ces' = acc_collation_elements
    /\ kpc' = "to_sort_key"
    /\ UNCHANGED <<sk_code_points, variable_weighting, nfd, ce_pos, ce_s, acc_collation_elements,
                   level, sort_key>>
    /\ UNCHANGED <<fixVars, codecVars, trieVars, nfcVars, qcVars, lcVars, cmVars, segVars>>

CollCodepoints == {76, 183, 770, 774, 790, 803, 1048, 19968}
VariableWeightings == {"NonIgnorable", "Blanked", "Shifted", "ShiftTrimmed"}

(***************************************************************************)
(* Specifications: one per component; the other components stay idle.      *)
(***************************************************************************)
FixIdle == pos = 0 /\ fixed = <<>> /\ pc = "idle"
CodecIdle == iter_pos = 0 /\ cps = <<>> /\ enc_idx = 0 /\ encoded = <<>> /\ cpc = "idle"
TrieIdle ==
    /\ endian = "little"
    /\ pairs = <<>>
    /\ pair_idx = 0
    /\ root = empty
    /\ query = <<>>
    /\ result = NoMatch
    /\ tpc = "idle"
NfcIdle ==
    /\ nfc_cps = <<>>
    /\ decomposed = <<>>
    /\ nfc_pos = 0
    /\ seq_start_pos = 0
    /\ seq = <<>>
    /\ normalised_code_points = <<>>
    /\ npc = "idle"
QcIdle ==
    /\ qc_bytes = <<>>
    /\ qc_iter_pos = 0
    /\ last_canonical_class = 0
    /\ qc_result = "Yes"
    /\ qc_returned = "None"
    /\ qpc = "idle"
LcIdle == lc_code_points = <<>> /\ lc_pos = 0 /\ lc_out = <<>> /\ lpc = "idle"
CmIdle == cm_x = <<>> /\ cm_y = <<>> /\ cm_result = "idle"
SegIdle == g_code_points = <<>> /\ g_pos = 0 /\ yielded = <<>> /\ gpc = "idle"
\* to_sort_key is called on its own: sort_key's locals are not in use
SortKeyArgsIdle ==
    /\ sk_code_points = <<>>
    /\ variable_weighting = "NonIgnorable"
    /\ nfd = <<>>
    /\ ce_pos = 0
    /\ ce_s = <<>>
    /\ acc_collation_elements = <<>>
CollIdle == SortKeyArgsIdle /\ ces = <<>> /\ level = 0 /\ sort_key = <<>> /\ kpc = "idle"
TextIdle == NfcIdle /\ QcIdle /\ LcIdle /\ CmIdle /\ SegIdle /\ CollIdle

\* fix(input) for every input up to MaxLen bytes
Init ==
    /\ input \in ByteSeqs
    /\ pos = 0
    /\ fixed = <<>>
    /\ pc = "start"
    /\ CodecIdle
    /\ TrieIdle
    /\ TextIdle

Next == FixStart \/ FixLoop \/ FixReturn

Spec == Init /\ [][Next]_vars

\* CodePointIter over every input up to MaxLen bytes, then encode
InitCodec ==
    /\ input \in ByteSeqs
    /\ FixIdle
    /\ iter_pos = 0
    /\ cps = <<>>
    /\ enc_idx = 0
    /\ encoded = <<>>
    /\ cpc = "decoding"
    /\ TrieIdle
    /\ TextIdle

NextCodec == IterNext \/ EncodeNext

SpecCodec == InitCodec /\ [][NextCodec]_vars

\* from_kvs on every list of up to MaxPairs pairs, then lookups
InitTrie ==
    /\ input = <<>>
    /\ FixIdle
    /\ CodecIdle
    /\ endian \in {"little", "big"}
    /\ pairs \in SeqsUpTo(TriePairs, MaxPairs)
    /\ pair_idx = 0
    /\ root = empty
    /\ query = <<>>
    /\ result = NoMatch
    /\ tpc = "building"
    /\ TextIdle

NextTrie == FromKvsInsert \/ FromKvsReturn \/ Get

SpecTrie == InitTrie /\ [][NextTrie]_vars

\* to_nfc(cps) for every cps of up to MaxCps codepoints
InitNfc ==
    /\ input = <<>>
    /\ FixIdle
    /\ CodecIdle
    /\ TrieIdle
    /\ nfc_cps \in SeqsUpTo(NfcCodepoints, MaxCps)
    /\ decomposed = <<>>
    /\ nfc_pos = 0
    /\ seq_start_pos = 0
    /\ seq = <<>>
    /\ normalised_code_points = <<>>
    /\ npc = "start"
    /\ QcIdle
    /\ LcIdle
    /\ CmIdle
    /\ SegIdle
    /\ CollIdle

NextNfc == NfcStart \/ NfcLoop \/ NfcReturn

SpecNfc == InitNfc /\ [][NextNfc]_vars

\* quick_check(bytes) for the UTF-8 of every sequence of up to MaxCps codepoints
InitQc ==
    /\ input = <<>>
    /\ FixIdle
    /\ CodecIdle
    /\ TrieIdle
    /\ NfcIdle
    /\ qc_bytes \in {Utf8Of(s) : s \in SeqsUpTo(QcCodepoints, MaxCps)}
    /\ qc_iter_pos = 0
    /\ last_canonical_class = 0
    /\ qc_result = "Yes"
    /\ qc_returned = "None"
    /\ qpc = "loop"
    /\ LcIdle
    /\ CmIdle
    /\ SegIdle
    /\ CollIdle

NextQc == QcNext \/ QcReturn

SpecQc == InitQc /\ [][NextQc]_vars

\* to_lowercase(code_points) for every sequence of up to MaxCaseLen codepoints
InitLc ==
    /\ input = <<>>
    /\ FixIdle
    /\ CodecIdle
    /\ TrieIdle
    /\ NfcIdle
    /\ QcIdle
    /\ lc_code_points \in SeqsUpTo(LcCodepoints, MaxCaseLen)
    /\ lc_pos = 0
    /\ lc_out = <<>>
    /\ lpc = "loop"
    /\ CmIdle
    /\ SegIdle
    /\ CollIdle

NextLc == LowerNext \/ LowerReturn

SpecLc == InitLc /\ [][NextLc]_vars

\* canonical_caseless_match(x, y) for every x and y of up to MaxFoldLen codepoints
InitCm ==
    /\ input = <<>>
    /\ FixIdle
    /\ CodecIdle
    /\ TrieIdle
    /\ NfcIdle
    /\ QcIdle
    /\ LcIdle
    /\ cm_x \in SeqsUpTo(CmCodepoints, MaxFoldLen)
    /\ cm_y \in SeqsUpTo(CmCodepoints, MaxFoldLen)
    /\ cm_result = "None"
    /\ SegIdle
    /\ CollIdle

NextCm == CaselessMatch

SpecCm == InitCm /\ [][NextCm]_vars

\* GraphemeIter::new(code_points) for every sequence of up to MaxCps
\* codepoints, then next() until None
InitSeg ==
    /\ input = <<>>
    /\ FixIdle
    /\ CodecIdle
    /\ TrieIdle
    /\ NfcIdle
    /\ QcIdle
    /\ LcIdle
    /\ CmIdle
    /\ g_code_points \in SeqsUpTo(SegCodepoints, MaxCps)
    /\ g_pos = 0
    /\ yielded = <<>>
    /\ gpc = "iterating"
    /\ CollIdle

NextSeg == GraphemeNext

SpecSeg == InitSeg /\ [][NextSeg]_vars

\* GraphemeIter on longer inputs over fewer classes: Regional_Indicator,
\* Extend, Prepend and a codepoint of no class the match names
RiCodepoints == {127462, 770, 1536, 65}

InitSegRi ==
    /\ input = <<>>
    /\ FixIdle
    /\ CodecIdle
    /\ TrieIdle
    /\ NfcIdle
    /\ QcIdle
    /\ LcIdle
    /\ CmIdle
    /\ g_code_points \in SeqsUpTo(RiCodepoints, MaxRiLen)
    /\ g_pos = 0
    /\ yielded = <<>>
    /\ gpc = "iterating"
    /\ CollIdle

SpecSegRi == InitSegRi /\ [][NextSeg]_vars

\* to_sort_key(ces) for every vector of up to MaxCes collation elements
InitSortKey ==
    /\ input = <<>>
    /\ FixIdle
    /\ CodecIdle
    /\ TrieIdle
    /\ NfcIdle
    /\ QcIdle
    /\ LcIdle
    /\ CmIdle
    /\ SegIdle
    /\ SortKeyArgsIdle
    /\ ces \in SeqsUpTo(Elements, MaxCes)
    /\ level = 0
    /\ sort_key = <<>>
    /\ kpc = "to_sort_key"

NextSortKey == SortKeyStart \/ SortKeyLevel \/ SortKeyReturn

SpecSortKey == InitSortKey /\ [][NextSortKey]_vars

InitColl ==
    /\ input = <<>>
    /\ FixIdle
    /\ CodecIdle
    /\ TrieIdle
    /\ NfcIdle
    /\ QcIdle
    /\ LcIdle
    /\ CmIdle
    /\ SegIdle
    /\ sk_code_points \in SeqsUpTo(CollCodepoints, MaxCps)
    /\ variable_weighting \in VariableWeightings
    /\ nfd = <<>>
    /\ ce_pos = 0
    /\ ce_s = <<>>
    /\ acc_collation_elements = <<>>
    /\ ces = <<>>
    /\ level = 0
    /\ sort_key = <<>>
    /\ kpc = "sort_key"

NextColl ==
    \/ SortKeyCall
    \/ CollationNext
    \/ CollationReturn
    \/ SortKeyStart
    \/ SortKeyLevel
    \/ SortKeyReturn

SpecColl == InitColl /\ [][NextColl]_vars

\* sort_key on one codepoint that has no row in the table: the first and the
\* last codepoint of every range derive_collation_elements tells apart, and
\* unassigned codepoints and noncharacters next to and far from them
DeriveCodepoints ==
    {888, 13312, 19903, 19968, 40959, 64014, 64041, 94207, 94208, 101119, 101120, 101631,
     101632, 101775, 101776, 110959, 110960, 111359, 111360, 131072, 173791, 327680,
     1114111}

InitDerive ==
    /\ input = <<>>
    /\ FixIdle
    /\ CodecIdle
    /\ TrieIdle
    /\ NfcIdle
    /\ QcIdle
    /\ LcIdle
    /\ CmIdle
    /\ SegIdle
    /\ sk_code_points \in {<<cp>> : cp \in DeriveCodepoints}
    /\ variable_weighting \in {"NonIgnorable", "Blanked"}
    /\ nfd = <<>>
    /\ ce_pos = 0
    /\ ce_s = <<>>
    /\ acc_collation_elements = <<>>
    /\ ces = <<>>
    /\ level = 0
    /\ sort_key = <<>>
    /\ kpc = "sort_key"

SpecDerive == InitDerive /\ [][NextColl]_vars

(***************************************************************************)
(* Reference notions the claims are stated with                            *)
(***************************************************************************)
DecodeErrKinds ==
    {"IncompleteCharacter", "InvalidCodePoint", "InvalidCodeUnit", "OverlongEncoding",
     "UnexpectedContinuation"}

AsciiOnly(s) == \A i \in 1..Len(s) : s[i] <= 127

AllContinuation(s) == \A i \in 1..Len(s) : CodeUnit_try_from(s[i]) = "Continuation"

\* s is one 2-, 3- or 4-byte sequence with correct continuation bytes whose
\* decoded value fits a shorter form
IsOverlong(s) ==
    /\ Len(s) \in {2, 3, 4}
    /\ CodeUnit_len(CodeUnit_try_from(s[1])) = Len(s)
    /\ AllContinuation(Tail(s))
    /\ CASE Len(s) = 2 -> decode_double(s[1], s[2]) < 128
         [] Len(s) = 3 -> decode_triple(s[1], s[2], s[3]) < 2048
         [] Len(s) = 4 -> decode_quad(s[1], s[2], s[3], s[4]) < 65536

\* The places where input is ASCII, then one overlong encoding, then ASCII
OverlongPlaces(s) ==
    {ij \in (0..Len(s)) \X (0..Len(s)) :
        /\ ij[1] < ij[2]
        /\ AsciiOnly(Slice(s, 0, ij[1]))
        /\ IsOverlong(Slice(s, ij[1], ij[2]))
        /\ AsciiOnly(Slice(s, ij[2], Len(s)))}

\* The number of continuation bytes that follow position p, at most n
RECURSIVE ContinuationsAfter(_, _, _)
ContinuationsAfter(s, p, n) ==
    IF n = 0 \/ p + 1 >= Len(s) \/ CodeUnit_try_from(At(s, p + 1)) # "Continuation" THEN 0
    ELSE 1 + ContinuationsAfter(s, p + 1, n - 1)

\* Repair as the specification words it: well-formed characters are copied,
\* and U+FFFD is written once for an invalid leading byte, once for an
\* unexpected continuation byte, once for a truncated character (its lead
\* byte and the continuation bytes that follow it) and once for a complete
\* character that validate rejects (skipped at its full length).
RECURSIVE MaximalSubpartRepair(_, _)
MaximalSubpartRepair(s, p) ==
    IF p >= Len(s) THEN <<>>
    ELSE LET unit == CodeUnit_try_from(At(s, p))
         IN  IF unit = "SingleByte" THEN <<At(s, p)>> \o MaximalSubpartRepair(s, p + 1)
             ELSE IF unit \in {"InvalidCodeUnit", "Continuation"}
                  THEN REPLACEMENT \o MaximalSubpartRepair(s, p + 1)
             ELSE LET n == bytes_remaining(unit)
                      k == ContinuationsAfter(s, p, n)
                  IN  IF k < n THEN REPLACEMENT \o MaximalSubpartRepair(s, p + 1 + k)
                      ELSE IF validate(Slice(s, p, p + 1 + n)).ok
                           THEN Slice(s, p, p + 1 + n) \o MaximalSubpartRepair(s, p + 1 + n)
                      ELSE REPLACEMENT \o MaximalSubpartRepair(s, p + 1 + n)

\* off is the length of the longest prefix of s that validate accepts
FirstOffending(s, off) ==
    /\ off < Len(s)
    /\ validate(Slice(s, 0, off)).ok
    /\ \A k \in (off + 1)..Len(s) : ~validate(Slice(s, 0, k)).ok

Stored(k) == \E i \in 1..Len(pairs) : pairs[i][1] = k

IsStrictPrefix(k, s) == Len(k) < Len(s) /\ SubSeq(s, 1, Len(k)) = k

StrictPrefixOfStored(k) == \E i \in 1..Len(pairs) : IsStrictPrefix(k, pairs[i][1])

(***************************************************************************)
(* Claims                                                                  *)
\* The codepoints that the bytes from cursor p on encode
RECURSIVE CodePointsFrom(_, _)
CodePointsFrom(bytes, p) ==
    LET n == CodePointIter_next(bytes, p)
    IN  IF n.kind = "Some" THEN <<n.code_point>> \o CodePointsFrom(bytes, n.pos) ELSE <<>>

\* The NFC quick-check property of a codepoint
NfcQuickCheckFlag(code_point) ==
    IF code_point \in NFC_QC_N THEN "No"
    ELSE IF code_point \in NFC_QC_M THEN "Maybe"
    ELSE "Yes"

\* s[i] has a non-zero combining class smaller than that of s[i - 1]
Misordered(s, i) ==
    /\ i > 1
    /\ combining_class(s[i]) # 0
    /\ combining_class(s[i]) < combining_class(s[i - 1])

\* Position p of s is preceded by a cased codepoint and then zero or more
\* case-ignorable codepoints
PrecededByCased(s, p) ==
    \E j \in 0..(p - 1) :
        /\ cased(At(s, j))
        /\ \A k \in (j + 1)..(p - 1) : case_ignorable(At(s, k))

\* Position p of s is followed by zero or more case-ignorable codepoints and
\* then a cased codepoint
FollowedByCased(s, p) ==
    \E j \in (p + 1)..(Len(s) - 1) :
        /\ cased(At(s, j))
        /\ \A k \in (p + 1)..(j - 1) : case_ignorable(At(s, k))

\* The same two contexts when the cased codepoint must not itself be
\* case-ignorable
PrecededByCasedNotIgnorable(s, p) ==
    \E j \in 0..(p - 1) :
        /\ cased(At(s, j)) /\ ~case_ignorable(At(s, j))
        /\ \A k \in (j + 1)..(p - 1) : case_ignorable(At(s, k))

FollowedByCasedNotIgnorable(s, p) ==
    \E j \in (p + 1)..(Len(s) - 1) :
        /\ cased(At(s, j)) /\ ~case_ignorable(At(s, j))
        /\ \A k \in (p + 1)..(j - 1) : case_ignorable(At(s, k))

\* to_lowercase has just mapped a sigma: the position it stood at
SigmaJustMapped ==
    /\ lpc = "loop"
    /\ lc_pos > 0
    /\ At(lc_code_points, lc_pos - 1) = 931

\* The segments of key that end at a zero, in order, each without its zero
\* (what follows the last zero is no segment)
RECURSIVE ZeroTerminatedSegments(_, _)
ZeroTerminatedSegments(key, open) ==
    IF key = <<>> THEN <<>>
    ELSE IF Head(key) = 0 THEN <<open>> \o ZeroTerminatedSegments(Tail(key), <<>>)
    ELSE ZeroTerminatedSegments(Tail(key), Append(open, Head(key)))

\* The non-zero weights that the elements have at level lvl (from 1), in the
\* order of the elements
NonZeroWeightsAt(elements, lvl) ==
    LET at_level == [i \in 1..Len(elements) |-> elements[i].weights[lvl]]
    IN  SelectSeq(at_level, LAMBDA w : w # 0)

\* elements is not empty and every element has the same number of weights
UniformLevels(elements) ==
    /\ elements # <<>>
    /\ \A i \in 1..Len(elements) : Len(elements[i].weights) = Len(elements[1].weights)

\* to_nfc: the run of decomposed that the last round of the loop took
TakenRun == Slice(decomposed, seq_start_pos, nfc_pos)

\* The combining classes of s never decrease from one element to the next
ClassesNonDecreasing(s) ==
    \A i \in 1..(Len(s) - 1) : combining_class(s[i]) <= combining_class(s[i + 1])

\* The elements of one combining class come in the same order in r and in t
SameOrderWithinClasses(r, t) ==
    \A c \in {combining_class(r[i]) : i \in 1..Len(r)} \cup {combining_class(t[i]) : i \in 1..Len(t)} :
        SelectSeq(r, LAMBDA x : combining_class(x) = c) = SelectSeq(t, LAMBDA x : combining_class(x) = c)

\* The run from start to end in dec is maximal: it begins at a starter or at
\* the front of dec, goes on through non-starters only, and stops at the next
\* starter or at the end of dec
MaximalRun(dec, start, end) ==
    /\ start < end
    /\ start = 0 \/ is_starter(At(dec, start))
    /\ \A i \in (start + 1)..(end - 1) : ~is_starter(At(dec, i))
    /\ end = Len(dec) \/ is_starter(At(dec, end))

\* The number of consecutive Regional_Indicator codepoints that end at
\* position i of code_points (from 0), counted back over the whole of it
RECURSIVE RiRunEndingAt(_, _)
RiRunEndingAt(code_points, i) ==
    IF i < 0 \/ grapheme_cluster_break(At(code_points, i)) # "RI" THEN 0
    ELSE 1 + RiRunEndingAt(code_points, i - 1)

\* Positions i and i + 1 (from 0) lie in one yielded slice
SameCluster(i) == \E k \in 1..Len(yielded) : yielded[k][1] <= i /\ i + 1 < yielded[k][2]

\* The offset from p at which the scan over the non-starters after buf[p]
\* ends: the end of buf, a starter, or a blocked non-starter, one whose
\* combining class is not above the class of the codepoint scanned before it
RECURSIVE RunEnd(_, _, _)
RunEnd(buf, p, k) ==
    IF \/ p + k >= Len(buf)
       \/ is_starter(At(buf, p + k))
       \/ k >= 2 /\ combining_class(At(buf, p + k)) <= combining_class(At(buf, p + k - 1))
    THEN k
    ELSE RunEnd(buf, p, k + 1)

\* S and the codepoints left behind when the non-starters of run are tried
\* in order: C is taken into S when S followed by C has a Match and left
\* behind on PartialMatch; on NoMatch it is left behind and the scan either
\* stops there (stops_at_no_match) or goes on
RECURSIVE Scan(_, _, _)
Scan(run, s, stops_at_no_match) ==
    IF run = <<>> THEN [s |-> s, skipped |-> <<>>]
    ELSE LET found == collation_elements(Append(s, Head(run))).kind
             rest == Scan(Tail(run), IF found = "Match" THEN Append(s, Head(run)) ELSE s,
                          stops_at_no_match)
         IN  CASE found = "Match" -> rest
               [] found = "NoMatch" /\ stops_at_no_match -> [s |-> s, skipped |-> run]
               [] OTHER -> [s |-> rest.s, skipped |-> <<Head(run)>> \o rest.skipped]

\* The discontiguous step of the round that starts in this state gives what
\* Scan gives on the non-starters up to the first blocked one
DiscontiguousIsScan(stops_at_no_match) ==
    LET b == contiguous_steps(nfd, ce_pos)
        end == RunEnd(b.nfd, b.pos, 1)
        d == discontiguous(b.nfd, b.pos, b.s, 1, 0)
        scan == Scan(Slice(b.nfd, b.pos + 1, b.pos + end), b.s, stops_at_no_match)
    IN  (/\ kpc = "elements"
         /\ ce_pos < Len(nfd)
         /\ b.pos + 1 < Len(b.nfd)
         /\ ~is_starter(At(b.nfd, b.pos + 1)))
            => /\ d.s = scan.s
               /\ d.nfd = Slice(b.nfd, 0, b.pos + 1) \o scan.skipped
                              \o Slice(b.nfd, b.pos + end, Len(b.nfd))

\* The ranges derive_collation_elements names: Tangut with Tangut
\* Components, Tangut Supplement, Nushu, Khitan Small Script, CJK Unified
\* Ideographs, CJK Compatibility Ideographs
TangutBlocks == (94208..101119) \cup (101632..101775)
NushuBlock == 110960..111359
KhitanBlock == 101120..101631
CjkBlocks == (19968..40959) \cup (63744..64255)

\* AAAA of the derived elements, not cut to 16 bits: the base of the block
\* of cp, with cp >> 15 added outside Tangut, Nushu and Khitan Small Script
DerivedAAAA(cp) ==
    CASE cp \in TangutBlocks -> 64256
      [] cp \in NushuBlock -> 64257
      [] cp \in KhitanBlock -> 64258
      [] cp \in CjkBlocks /\ unified_ideograph(cp) -> 64320 + (cp \div 32768)
      [] unified_ideograph(cp) -> 64384 + (cp \div 32768)
      [] OTHER -> 64448 + (cp \div 32768)

\* The two derived elements with these first weights
DerivedElements(aaaa, bbbb) ==
    << [weights |-> <<aaaa, 32, 2>>, variable |-> FALSE],
       [weights |-> <<bbbb, 0, 0>>, variable |-> FALSE] >>

\* The builder has just looked up the single codepoint it was given
DerivedJustNow ==
    /\ kpc = "elements"
    /\ ce_pos = 1
    /\ Len(sk_code_points) = 1
    /\ ce_s = sk_code_points
    /\ collation_elements(ce_s).kind # "Match"

\* a and b hold the same codepoints, each as many times
SameCodepoints(a, b) ==
    \A x \in {a[i] : i \in 1..Len(a)} \cup {b[i] : i \in 1..Len(b)} :
        Cardinality({i \in 1..Len(a) : a[i] = x}) = Cardinality({i \in 1..Len(b) : b[i] = x})

(***************************************************************************)
\* C1: for every byte sequence b, fix(b) returns and validate accepts what it
\* returns: validate(fix(b)) == Ok.
C1_FixedValidates ==
    pc \in {"done", "abort"} => (pc = "done" /\ validate(fixed).ok)

\* C2: fix copies the well-formed stretches and writes 0xEF 0xBF 0xBD exactly
\* once per maximal ill-formed subsequence (invalid leading byte, unexpected
\* continuation byte, truncated character), resuming right after it.
C2_MaximalSubparts ==
    pc = "done" => fixed = MaximalSubpartRepair(input, 0)

\* C3: every overlong encoding is replaced by U+FFFD, as in
\* fix([0xC0, 0x80]) == [0xEF, 0xBF, 0xBD].
C3_OverlongReplaced ==
    pc = "done" =>
        \A ij \in OverlongPlaces(input) :
            fixed = Slice(input, 0, ij[1]) \o REPLACEMENT \o Slice(input, ij[2], Len(input))

\* C4: every overlong 2-byte encoding of c < 0x80 is replaced by the single
\* byte c, as in fix([0xC0, 0x80]) == [0x00].
C4_OverlongShortened ==
    pc = "done" =>
        \A ij \in OverlongPlaces(input) :
            ij[2] = ij[1] + 2 =>
                fixed = Slice(input, 0, ij[1])
                        \o <<decode_double(At(input, ij[1]), At(input, ij[1] + 1))>>
                        \o Slice(input, ij[2], Len(input))

\* C5: a byte sequence that validate accepts is returned unchanged by fix.
C5_ValidUnchanged ==
    (pc = "done" /\ validate(input).ok) => fixed = input

C5_Witness ==
    /\ pc = "done"
    /\ input = <<65, 224, 191, 191>>
    /\ validate(input).ok
    /\ fixed = input

\* C6: no step of fix aborts or leaves the cursor past the end of the input,
\* and every iteration of the loop strictly increases pos.
C6_FixTerminates ==
    [][/\ pc' # "abort"
       /\ pos' <= Len(input)
       /\ (pc = "loop" /\ pc' = "loop") => pos' > pos]_vars

C8_OverlongRejected ==
    (pc # "start" /\ OverlongPlaces(input) # {}) => validate(input).err = "OverlongEncoding"

\* C9: for every byte sequence that validate accepts, decoding it with the
\* iterator and encoding the codepoints again yields the same bytes.
C9_RoundTrip ==
    (cpc \in {"done", "abort"} /\ validate(input).ok) => (cpc = "done" /\ encoded = input)

\* C10 as claimed: get answers PartialMatch exactly for the strict proper
\* prefixes of stored keys.
C10_PartialIffStrictPrefix ==
    tpc = "queried" => (result.kind = "PartialMatch" <=> StrictPrefixOfStored(query))

\* C10 as amended: get answers PartialMatch exactly for the keys that are not
\* stored themselves and are a strict proper prefix of a stored key or empty
\* (the root of an empty trie answers PartialMatch too); a stored key that is
\* also a prefix of a longer stored key answers Match.
C10_PartialIffUnstoredPrefix ==
    tpc = "queried" =>
        /\ result.kind = "PartialMatch" <=>
               (~Stored(query) /\ (StrictPrefixOfStored(query) \/ query = <<>>))
        /\ result.kind = "Match" <=> Stored(query)

C10_Witness ==
    /\ tpc = "queried"
    /\ Stored(query)
    /\ StrictPrefixOfStored(query)
    /\ result.kind = "Match"

\* C11: to_nfc is idempotent: applying to_nfc to what to_nfc returned gives
\* the same sequence again.
C11_NfcIdempotent ==
    npc = "done" => to_nfc(normalised_code_points) = normalised_code_points

\* to_nfc has returned a sequence in which it composed something
C11_Witness ==
    /\ npc = "done"
    /\ Len(normalised_code_points) < Len(decomposed)
    /\ normalised_code_points # nfc_cps

\* C12: composition never changes the canonical decomposition: the NFD of
\* what to_nfc returns equals the NFD of its input.
C12_NfcKeepsNfd ==
    npc = "done" => to_nfd(normalised_code_points) = to_nfd(nfc_cps)

\* C13: after decomposition and canonical ordering in to_nfc, every run the
\* loop takes is a maximal run (from a starter, or from the front, through
\* the non-starters that follow), its combining classes never decrease, and
\* codepoints of equal combining class keep the order they had in the
\* decomposed input (the sort is stable).
C13_RunsCanonicallyOrdered ==
    (npc \in {"loop", "done"} /\ nfc_pos > 0) =>
        /\ MaximalRun(decomposed, seq_start_pos, nfc_pos)
        /\ Len(seq) = Len(TakenRun)
        /\ ClassesNonDecreasing(seq)
        /\ SameOrderWithinClasses(TakenRun, seq)

\* a run from a starter whose marks the sort had to move, two of them
\* different marks of one class
C13_Witness ==
    /\ npc = "loop"
    /\ nfc_pos > 0
    /\ is_starter(At(decomposed, seq_start_pos))
    /\ seq # TakenRun
    /\ \E i, j \in 1..Len(seq) :
          /\ i < j
          /\ seq[i] # seq[j]
          /\ combining_class(seq[i]) = combining_class(seq[j])
          /\ combining_class(seq[i]) # 0

\* C14: in what to_nfc returns no two adjacent codepoints form a primary
\* composite (nothing lies between adjacent codepoints, so the pair is not
\* blocked), starter-starter pairs included; in particular
\* to_nfc([0x1100, 0xAC00, 0x11A8]) = [0x1100, 0xAC01].
C14_NoAdjacentComposablePair ==
    npc = "done" =>
        /\ \A i \in 1..(Len(normalised_code_points) - 1) :
              primary_composite(normalised_code_points[i], normalised_code_points[i + 1]) = <<>>
        /\ nfc_cps = <<4352, 44032, 4520>> => normalised_code_points = <<4352, 44033>>

\* C15: quick_check returns No exactly when some codepoint has flag No or a
\* non-zero combining class smaller than the class of the codepoint before
\* it (also when that comes after a Maybe flag); otherwise Maybe exactly when
\* some codepoint has flag Maybe; otherwise Yes.
C15_QuickCheckResult ==
    qpc = "done" =>
        LET s == CodePointsFrom(qc_bytes, 0)
            no == \E i \in 1..Len(s) : NfcQuickCheckFlag(s[i]) = "No" \/ Misordered(s, i)
            maybe == \E i \in 1..Len(s) : NfcQuickCheckFlag(s[i]) = "Maybe"
        IN  qc_returned = IF no THEN "No" ELSE IF maybe THEN "Maybe" ELSE "Yes"

\* quick_check has returned No for a misordering that follows a Maybe flag
\* and a starter, with no No flag anywhere
C15_Witness ==
    /\ qpc = "done"
    /\ qc_returned = "No"
    /\ qc_result = "Maybe"
    /\ LET s == CodePointsFrom(qc_bytes, 0)
       IN  /\ \A i \in 1..Len(s) : NfcQuickCheckFlag(s[i]) # "No"
           /\ \E i \in 1..Len(s) : is_starter(s[i])

\* C16: to_lowercase maps U+03A3 at position p to 0x03C2 exactly when p is
\* preceded by a cased codepoint followed by zero or more case-ignorable
\* codepoints and is not followed by zero or more case-ignorable codepoints
\* and then a cased codepoint, and to 0x03C3 otherwise, also when a codepoint
\* is both cased and case-ignorable.
C16_FinalSigma ==
    SigmaJustMapped =>
        LET p == lc_pos - 1
            final == PrecededByCased(lc_code_points, p) /\ ~FollowedByCased(lc_code_points, p)
        IN  At(lc_out, Len(lc_out) - 1) = IF final THEN 962 ELSE 963

\* C16 as amended: the cased codepoint of either context is one that is not
\* itself case-ignorable (the case-ignorable codepoints next to the sigma are
\* all skipped before the cased test).
C16_FinalSigmaSkippingIgnorables ==
    SigmaJustMapped =>
        LET p == lc_pos - 1
            final == /\ PrecededByCasedNotIgnorable(lc_code_points, p)
                     /\ ~FollowedByCasedNotIgnorable(lc_code_points, p)
        IN  At(lc_out, Len(lc_out) - 1) = IF final THEN 962 ELSE 963

\* a sigma mapped to 0x03C2 after a cased letter and a case-ignorable mark,
\* with a case-ignorable codepoint and no cased one behind it
C16_Witness ==
    /\ SigmaJustMapped
    /\ At(lc_out, Len(lc_out) - 1) = 962
    /\ lc_pos >= 3
    /\ case_ignorable(At(lc_code_points, lc_pos - 2))
    /\ lc_pos < Len(lc_code_points)
    /\ case_ignorable(At(lc_code_points, lc_pos))

\* C17: canonical_caseless_match(x, y) is Equal exactly when
\* to_nfd(case_fold(to_nfd(x))) = to_nfd(case_fold(to_nfd(y))).
C17_MatchIffNfdFoldNfdEqual ==
    cm_result \notin {"idle", "None"} =>
        ((cm_result = "Equal") <=>
            (to_nfd(case_fold(to_nfd(cm_x))) = to_nfd(case_fold(to_nfd(cm_y)))))

\* C18: the slices GraphemeIter yields are non-empty, the first starts at
\* the front of s and each next one where the one before ended, none reaches
\* past the end of s, there are never more than len(s) of them, and when
\* next() has returned None they cover s to its end (their concatenation is s).
C18_ClustersPartitionInput ==
    /\ \A i \in 1..Len(yielded) :
          /\ yielded[i][1] < yielded[i][2]
          /\ yielded[i][2] <= Len(g_code_points)
          /\ yielded[i][1] = IF i = 1 THEN 0 ELSE yielded[i - 1][2]
    /\ Len(yielded) <= Len(g_code_points)
    /\ gpc = "done" =>
          IF yielded = <<>> THEN g_code_points = <<>>
          ELSE yielded[Len(yielded)][2] = Len(g_code_points)

\* the iteration is over and gave a cluster of several codepoints followed
\* by another cluster
C18_Witness ==
    /\ gpc = "done"
    /\ Len(yielded) >= 2
    /\ yielded[1][2] - yielded[1][1] >= 2

\* C19: for a non-empty array of collation elements with L weights each,
\* to_sort_key returns a key with exactly L zeros that ends with a zero, and
\* the i-th zero-terminated segment is the sequence of the non-zero level-i
\* weights of the elements in array order.
C19_SortKeyLayout ==
    (kpc \in {"done", "abort"} /\ UniformLevels(ces)) =>
        LET L == Len(ces[1].weights)
        IN  /\ kpc = "done"
            /\ Cardinality({i \in 1..Len(sort_key) : sort_key[i] = 0}) = L
            /\ sort_key[Len(sort_key)] = 0
            /\ ZeroTerminatedSegments(sort_key, <<>>) =
                  [i \in 1..L |-> NonZeroWeightsAt(ces, i)]

\* to_sort_key has returned the key of several elements with several levels,
\* one level with a zero weight left out and one level with no weight at all
C19_Witness ==
    /\ kpc = "done"
    /\ UniformLevels(ces)
    /\ Len(ces) >= 2
    /\ Len(ces[1].weights) >= 2
    /\ \E i \in 1..Len(ces[1].weights) :
          /\ NonZeroWeightsAt(ces, i) # <<>>
          /\ Len(NonZeroWeightsAt(ces, i)) < Len(ces)
    /\ \E i \in 1..Len(ces[1].weights) : NonZeroWeightsAt(ces, i) = <<>>


\* C20: sort_key is total: for every sequence of codepoints, the empty one
\* included, under the NonIgnorable and Blanked settings, the call returns a
\* sort key and never aborts.
C20_SortKeyTotal ==
    variable_weighting \in {"NonIgnorable", "Blanked"} => kpc \notin {"abort", "todo"}


\* C21: under Shifted and ShiftTrimmed the call fails as unsupported for
\* every input: it never returns a sort key and it ends in no other failure
\* than the one of the weighting that is not implemented.
C21_ShiftedFailsUnsupported ==
    variable_weighting \in {"Shifted", "ShiftTrimmed"} => kpc \notin {"done", "abort"}


\* C22: a mark whose combining class is not zero and equals the class of the
\* codepoint just before it in the window is blocked.  For a starter S and
\* marks M1, M2 of equal class, none of them decomposable, where (S, M2) has
\* a primary composite and (S, M1) has none, to_nfc([S, M1, M2]) is the
\* input.
C22_EqualClassBlocks ==
    (/\ npc = "done"
     /\ Len(nfc_cps) = 3
     /\ \A i \in 1..3 : decomposition_mapping(nfc_cps[i]) = <<>>
     /\ is_starter(nfc_cps[1])
     /\ combining_class(nfc_cps[2]) # 0
     /\ combining_class(nfc_cps[3]) = combining_class(nfc_cps[2])
     /\ primary_composite(nfc_cps[1], nfc_cps[2]) = <<>>
     /\ primary_composite(nfc_cps[1], nfc_cps[3]) # <<>>)
        => normalised_code_points = nfc_cps


\* C23: two adjacent Regional_Indicator codepoints at positions i and i + 1
\* are in the same cluster exactly when the number of consecutive
\* Regional_Indicators ending at i, counted over the whole input, is odd:
\* the counter that restarts at zero on every call of next decides as a
\* counter carried across clusters would.
C23_RiPairsByCarriedParity ==
    gpc = "done" =>
        \A i \in 0..(Len(g_code_points) - 2) :
            (/\ grapheme_cluster_break(At(g_code_points, i)) = "RI"
             /\ grapheme_cluster_break(At(g_code_points, i + 1)) = "RI")
                => (SameCluster(i) <=> RiRunEndingAt(g_code_points, i) % 2 = 1)

\* a cluster of two Regional_Indicators that starts inside a run of them,
\* where the carried count is not zero
C23_Witness ==
    /\ gpc = "done"
    /\ \E k \in 2..Len(yielded) :
          /\ yielded[k][2] - yielded[k][1] = 2
          /\ RiRunEndingAt(g_code_points, yielded[k][1]) = 3
          /\ RiRunEndingAt(g_code_points, yielded[k][1] + 1) = 4


\* C24: a cluster that holds a codepoint of class CN, CR or LF is that one
\* codepoint, or the two codepoints CR LF: no Extend, ZWJ, SpacingMark or
\* Prepend is joined to a CN, CR or LF.
C24_ControlsStandAlone ==
    \A k \in 1..Len(yielded) :
        LET cluster == Slice(g_code_points, yielded[k][1], yielded[k][2])
            classes == [i \in 1..Len(cluster) |-> grapheme_cluster_break(cluster[i])]
        IN  (\E i \in 1..Len(classes) : classes[i] \in {"CN", "CR", "LF"})
                => (Len(classes) = 1 \/ classes = <<"CR", "LF">>)

\* a cluster of one CN, CR or LF was yielded although an Extend, ZWJ or
\* SpacingMark comes right after it and a Prepend right before it
C24_Witness ==
    \E k \in 2..Len(yielded) :
        /\ yielded[k][2] = yielded[k][1] + 1
        /\ grapheme_cluster_break(At(g_code_points, yielded[k][1])) \in {"CN", "CR", "LF"}
        /\ grapheme_cluster_break(At(g_code_points, yielded[k][1] - 1)) = "PP"
        /\ yielded[k][2] < Len(g_code_points)
        /\ grapheme_cluster_break(At(g_code_points, yielded[k][2])) \in {"EX", "ZWJ", "SM"}


\* C25: in the contiguous step a PartialMatch for S extended by the next
\* codepoint makes the builder go on extending; it never aborts the builder:
\* the builder is never stopped with an S whose lookup is PartialMatch.
C25_PartialMatchNeverAborts ==
    ~(kpc = "todo" /\ collation_elements(ce_s).kind = "PartialMatch")


\* C26: in the contiguous step every codepoint appended to S after the
\* first one is a starter: the step ends at the first non-starter, also after
\* it has absorbed starters.
C26_ContiguousTakesStartersOnly ==
    (kpc = "elements" /\ ce_pos + 1 < Len(nfd) /\ is_starter(At(nfd, ce_pos + 1))) =>
        LET taken == contiguous(nfd, ce_pos, <<At(nfd, ce_pos)>>).s
        IN  \A i \in 2..Len(taken) : is_starter(taken[i])


C28_BlankedAcrossSequences ==
    variable_weighting = "Blanked" =>
        LET a == acc_collation_elements
            AllZero(ce) == \A l \in 1..Len(ce.weights) : ce.weights[l] = 0
        IN  \A j \in 1..Len(a) :
                (\/ a[j].variable
                 \/ \E i \in 1..(j - 1) :
                        /\ a[i].variable
                        /\ \A k \in (i + 1)..j : a[k].weights[1] = 0)
                    => AllZero(a[j])


\* C29: a codepoint with no row in the table gets exactly the two
\* non-variable elements [AAAA, 0x0020, 0x0002] and [BBBB, 0, 0] with
\* BBBB = (cp & 0x7FFF) | 0x8000 in every block and AAAA from the base of the
\* block; neither AAAA nor BBBB is cut by the conversion to 16 bits.
C29_DerivedMasked ==
    DerivedJustNow =>
        LET cp == ce_s[1]
            aaaa == DerivedAAAA(cp)
            bbbb == (cp % 32768) + 32768
        IN  /\ aaaa < 65536
            /\ bbbb < 65536
            /\ acc_collation_elements = DerivedElements(aaaa, bbbb)

\* C29, amended: as above, but in Tangut, Tangut Components and Tangut
\* Supplement BBBB = (cp - 0x17000) | 0x8000, in Nushu
\* BBBB = (cp - 0x1B170) | 0x8000 and in Khitan Small Script
\* BBBB = (cp - 0x18B00) | 0x8000; everywhere else
\* BBBB = (cp & 0x7FFF) | 0x8000.
C29_DerivedByBlock ==
    DerivedJustNow =>
        LET cp == ce_s[1]
            aaaa == DerivedAAAA(cp)
            bbbb == CASE cp \in TangutBlocks -> (cp - 94208) + 32768
                      [] cp \in NushuBlock -> (cp - 110960) + 32768
                      [] cp \in KhitanBlock -> (cp - 101120) + 32768
                      [] OTHER -> (cp % 32768) + 32768
        IN  /\ aaaa < 65536
            /\ bbbb < 65536
            /\ acc_collation_elements = DerivedElements(aaaa, bbbb)

\* the elements of a Tangut codepoint whose low 15 bits differ from its
\* offset in the block have been derived
C29_Witness ==
    /\ DerivedJustNow
    /\ ce_s[1] \in TangutBlocks
    /\ ce_s[1] % 32768 # ce_s[1] - 94208
    /\ Len(acc_collation_elements) = 2


\* C30: in every round of to_collation_elements that does not abort, S is
\* not empty and the codepoints still to be consumed before the round are
\* those of S together with those still to be consumed after it, each as
\* many times: none is dropped and none is looked up twice, so the lengths of
\* all S sum to the length of the NFD buffer and the loop ends; and S is a
\* single codepoint or has a Match in the trie, so deriving from its first
\* codepoint discards nothing.
C30_EveryCodepointInOneS ==
    [][(kpc = "elements" /\ kpc' = "elements") =>
          /\ Len(ce_s') >= 1
          /\ ce_pos' <= Len(nfd')
          /\ SameCodepoints(Slice(nfd, ce_pos, Len(nfd)),
                            ce_s' \o Slice(nfd', ce_pos', Len(nfd')))
          /\ Len(ce_s') = 1 \/ collation_elements(ce_s').kind = "Match"]_vars

\* a round has matched a contraction and taken its codepoints out of the
\* buffer, and codepoints are still to be consumed
C30_Witness ==
    /\ kpc = "elements"
    /\ Len(ce_s) >= 2
    /\ Len(nfd) < Len(sk_code_points)
    /\ ce_pos < Len(nfd)

====
